---- MODULE Spec2Model ----
(***************************************************************************)
(* State-machine model of the school-ERP backend: the authentication and   *)
(* token lifecycle (src/src/modules/auth/auth.handlers.js), the protected- *)
(* route authenticator (src/src/middlewares/auth.js) and tenant scoping    *)
(* (src/src/utils/schoolScope.js, students.handlers.js, school.common).    *)
(*                                                                         *)
(* Time is a discrete clock `now`; token and OTP lifetimes are counted in  *)
(* clock ticks.  A request handler is a function of the store and of its   *)
(* input: <handler>Result gives the response together with the store it    *)
(* leaves behind, and the action <handler> commits that store (Spec).      *)
(* The tenant-scope resolvers are exercised by SpecScope.                  *)
(***************************************************************************)
EXTENDS Integers, Sequences, FiniteSets, Bags, TLC

(* ------------------------------ bounds --------------------------------- *)
\* The clock runs from 0 to MaxTime; at most MaxRequests requests write.
MaxTime == 2
MaxRequests == 3

(* ----------------------- configuration / constants --------------------- *)
\* SQL NULL of a nullable timestamp column (revokedAt, usedAt, lastLoginAt).
NULL == -1

\* Token lifetimes in clock ticks (ACCESS_TOKEN_EXPIRES_IN, ...).
AccessTTL == 1
RefreshTTL == 2
ResetTTL == 1
OtpTTL == 1

\* A User row's schoolId NULL (platform SUPERADMIN) and an absent request
\* parameter (undefined) are both falsy in the JavaScript conditions.
NoSchool == "null"
Undefined == "undefined"

\* Two accounts of the seed: the school admin, and the HR manager whose
\* account has been deactivated in the store (User.isActive = false).
UserIds == {"u_admin", "u_hr"}
ActiveAtStart(u) == u = "u_admin"

UserEmail(u) == IF u = "u_admin" THEN "admin@school.edu" ELSE "hr@school.edu"
UserRole(u) == IF u = "u_admin" THEN "SCHOOLADMIN" ELSE "HR"
UserSchool(u) == "schoolA"

SeedPassword == "Admin123!"

\* The deployments considered.  "k1".."k3" are secrets; every equality
\* pattern between the access, refresh and password-reset secret occurs
\* (PASSWORD_RESET_SECRET unset falls back to the refresh secret), and so
\* does every combination of NODE_ENV with a configured / unconfigured
\* mailer.  Token verification reads only the secrets and forgot-password
\* reads only NODE_ENV and the mailer, so the two groups are paired rather
\* than multiplied.
EnvConfigs ==
  {[JWT_ACCESS_SECRET |-> "k1", JWT_REFRESH_SECRET |-> "k2",
    PASSWORD_RESET_SECRET |-> Undefined, NODE_ENV |-> "production", mailerConfigured |-> TRUE],
   [JWT_ACCESS_SECRET |-> "k1", JWT_REFRESH_SECRET |-> "k1",
    PASSWORD_RESET_SECRET |-> Undefined, NODE_ENV |-> "development", mailerConfigured |-> FALSE],
   [JWT_ACCESS_SECRET |-> "k1", JWT_REFRESH_SECRET |-> "k2",
    PASSWORD_RESET_SECRET |-> "k3", NODE_ENV |-> "production", mailerConfigured |-> FALSE],
   [JWT_ACCESS_SECRET |-> "k1", JWT_REFRESH_SECRET |-> "k1",
    PASSWORD_RESET_SECRET |-> "k3", NODE_ENV |-> "development", mailerConfigured |-> TRUE],
   [JWT_ACCESS_SECRET |-> "k1", JWT_REFRESH_SECRET |-> "k2",
    PASSWORD_RESET_SECRET |-> "k1", NODE_ENV |-> "development", mailerConfigured |-> TRUE]}

(* ------------------------------ inputs --------------------------------- *)
EmailInputs == {"ADMIN@school.edu", "hr@school.edu", "ghost@school.edu"}
PasswordInputs == {"Admin123!", "NewPass1!", "weak"}
OtpCodes == {"100000", "999999"}
OtpInputs == OtpCodes \cup {"12345"}

\* String.prototype.toLowerCase on the e-mail inputs.
toLowerCase(e) == IF e = "ADMIN@school.edu" THEN "admin@school.edu" ELSE e

\* Character classes of the password inputs (the four regexes of the schema).
HasUpper(p) == p \in {"Admin123!", "NewPass1!"}
HasLower(p) == p \in {"Admin123!", "NewPass1!", "weak"}
HasDigit(p) == p \in {"Admin123!", "NewPass1!"}
HasSpecial(p) == p \in {"Admin123!", "NewPass1!"}

\* z.string().min(8) plus the four composition regexes.
newPasswordOk(p) == Len(p) >= 8 /\ HasUpper(p) /\ HasLower(p) /\ HasDigit(p) /\ HasSpecial(p)

\* loginSchema: a valid e-mail and password.min(6).
loginSchemaOk(e, p) == Len(p) >= 6

\* verifyOtpSchema: /^\d{6}$/.
otpFormatOk(o) == Len(o) = 6 /\ o \in (OtpCodes \cup {"000000"})

(* --------------------------- tokens and hashes ------------------------- *)
NoJwt ==
  [tokenType |-> "", sub |-> "", email |-> "", role |-> "", schoolId |-> "",
   jti |-> 0, iat |-> 0, exp |-> 0, key |-> ""]

\* A refresh token signed with a key that is not a server secret.
ForgedJwt ==
  [tokenType |-> "refresh", sub |-> "u_admin", email |-> "admin@school.edu",
   role |-> "SCHOOLADMIN", schoolId |-> "schoolA", jti |-> 0, iat |-> 0,
   exp |-> MaxTime + RefreshTTL + 1, key |-> "kx"]

hashToken(token) == [alg |-> "sha256", of |-> token]

bcryptHash(p) == [alg |-> "bcrypt", of |-> p]
bcryptCompare(p, h) == h.alg = "bcrypt" /\ h.of = p

VARIABLES
  env,            \* parsed environment (secrets, NODE_ENV, mailer)
  now,            \* the clock
  users,          \* User rows: passwordHash, isActive, lastLoginAt
  refreshTokens,  \* RefreshToken ledger rows
  otps,           \* PasswordResetOtp rows
  issued,         \* every JWT the server has handed to a client
  requests,       \* number of requests that have written so far
  hist,           \* history: which tokens / codes were used by which flow
  scopeCall,      \* the last tenant-scoped request and its outcome
  errorCall,      \* the last error passed to the error boundary, and its response
  procs           \* requests in progress, handled statement by statement

authVars == <<env, now, users, refreshTokens, otps, issued, requests, hist, scopeCall,
              errorCall, procs>>

\* The server process (server.js).
VARIABLES
  isShuttingDown, \* the module-level flag of server.js
  server,         \* the http server: listening, closing, closed
  closeCallback,  \* where the callback given to server.close stands
  forcedTimer,    \* the forced-shutdown timer: unset, armed, fired
  exitCode,       \* the code process.exit was called with, NULL while running
  redis,          \* what getRedis() returns: "client", or "null" without REDIS_URL
  received,       \* the signals and process events delivered so far
  cleanupStarts,  \* how often cleanup got past its guard
  disconnects     \* how the disconnects of the close callback ended, in order

serverVars == <<isShuttingDown, server, closeCallback, forcedTimer, exitCode, redis,
                received, cleanupStarts, disconnects>>

InitServerVars ==
  /\ isShuttingDown = FALSE
  /\ server = "listening"
  /\ closeCallback = "none"
  /\ forcedTimer = "unset"
  /\ exitCode = NULL
  /\ received = <<>>
  /\ cleanupStarts = 0
  /\ disconnects = <<>>

\* Fee collection (school.finance.handlers.js).
VARIABLES
  invoices,       \* Invoice rows by id: schoolId, studentId, amountDue, amountPaid, status
  payments,       \* Payment rows, as a bag: the generated id and receiptNo are left out
  payRequests     \* the createPayment requests being handled

financeVars == <<invoices, payments, payRequests>>

NoPayRequest ==
  [pc |-> "idle", schoolId |-> "", invoiceId |-> NULL, amount |-> 0,
   amountDue |-> 0, amountPaid |-> 0, status |-> 0]

InitFinanceVars ==
  /\ invoices = <<>>
  /\ payments = EmptyBag
  /\ payRequests = [p \in {"p1", "p2"} |-> NoPayRequest]

\* Staff attendance (school.academic.core.handlers.js).
VARIABLES
  staffAttendance, \* StaffAttendance rows
  leaveRequests,   \* LeaveRequest rows
  marks            \* the attendance records applied so far, in order

attendanceVars == <<staffAttendance, leaveRequests, marks>>

InitAttendanceVars ==
  /\ staffAttendance = {}
  /\ leaveRequests = {}
  /\ marks = <<>>

\* Students and classes.
VARIABLES
  students,       \* Student rows by id: schoolId, status
  classRooms      \* ClassRoom rows by id: schoolId, name, classTeacherId

recordVars == <<students, classRooms>>

\* A student and a class in each of the two schools.
InitRecordVars ==
  /\ students = [id \in {"stuA", "stuB"} |->
                   [schoolId |-> IF id = "stuA" THEN "schoolA" ELSE "schoolB",
                    status |-> "ACTIVE"]]
  /\ classRooms = [id \in {"clsA", "clsB"} |->
                     [schoolId |-> IF id = "clsA" THEN "schoolA" ELSE "schoolB",
                      name |-> "9", classTeacherId |-> NULL]]

restVars == <<serverVars, financeVars, attendanceVars, recordVars>>

\* The state of everything outside the auth module when the server starts.
InitRest ==
  InitServerVars /\ redis = "null" /\ InitFinanceVars /\ InitAttendanceVars /\ InitRecordVars

vars == <<authVars, restVars>>

passwordResetSecret ==
  IF env.PASSWORD_RESET_SECRET = Undefined THEN env.JWT_REFRESH_SECRET
  ELSE env.PASSWORD_RESET_SECRET

buildJwtPayload(u) ==
  [sub |-> u, email |-> UserEmail(u), role |-> UserRole(u), schoolId |-> UserSchool(u)]

issueAccessToken(payload) ==
  [tokenType |-> "access", sub |-> payload.sub, email |-> payload.email,
   role |-> payload.role, schoolId |-> payload.schoolId, jti |-> 0,
   iat |-> now, exp |-> now + AccessTTL, key |-> env.JWT_ACCESS_SECRET]

issueRefreshToken(payload, uuid) ==
  [tokenType |-> "refresh", sub |-> payload.sub, email |-> payload.email,
   role |-> payload.role, schoolId |-> payload.schoolId, jti |-> uuid,
   iat |-> now, exp |-> now + RefreshTTL, key |-> env.JWT_REFRESH_SECRET]

issuePasswordResetToken(payload, uuid) ==
  [tokenType |-> "password_reset", sub |-> payload.sub, email |-> payload.email,
   role |-> "", schoolId |-> "", jti |-> uuid,
   iat |-> now, exp |-> now + ResetTTL, key |-> passwordResetSecret]

\* crypto.randomUUID() for the jti: a value no earlier token carries.
randomUUID == Cardinality({t \in issued : t.jti # 0}) + 1

\* jwt.verify(token, secret, {algorithms: ["HS256"]}): the signature is
\* checked first, then the exp claim.
jwtVerify(token, secret) ==
  IF token.key # secret THEN "JsonWebTokenError"
  ELSE IF now >= token.exp THEN "TokenExpiredError"
  ELSE "ok"

tokenExpiryFromJwt(token) == token.exp

(* ------------------------------ responses ------------------------------ *)
Response(status, code, message, fields) ==
  [status |-> status, code |-> code, message |-> message, fields |-> fields]

unauthorized(message) == Response(401, "UNAUTHORIZED", message, {})
invalidOtp == Response(400, "INVALID_OTP", "Invalid or expired OTP", {})
invalidResetToken == Response(401, "INVALID_RESET_TOKEN", "Invalid or expired reset token", {})
success(status, message, fields) == Response(status, "", message, fields)

ZodError == [name |-> "ZodError", statusCode |-> 0, errorCode |-> "", code |-> "", message |-> "Validation failed"]
PlainError(message) == [name |-> "Error", statusCode |-> 0, errorCode |-> "", code |-> "", message |-> message]
createHttpError(statusCode, message, errorCode) ==
  [name |-> "Error", statusCode |-> statusCode, errorCode |-> errorCode, code |-> "", message |-> message]
badRequest(message, code) == createHttpError(400, message, code)
forbidden(message) == createHttpError(403, message, "FORBIDDEN")
notFound(message, code) == createHttpError(404, message, code)

\* Variant: an unclassified error is answered with its own message.
errorHandlerEchoingMessage(error) ==
  IF error.name = "ZodError"
    THEN Response(400, "VALIDATION_ERROR",
                  IF error.message = "" THEN "Validation failed" ELSE error.message, {})
  ELSE IF error.statusCode # 0
    THEN Response(error.statusCode,
                  IF error.errorCode = "" THEN "REQUEST_ERROR" ELSE error.errorCode,
                  IF error.message = "" THEN "Request failed" ELSE error.message, {})
  ELSE IF error.code = "P2002"
    THEN Response(409, "DUPLICATE_VALUE", "Unique value already exists", {})
  ELSE Response(500, "INTERNAL_SERVER_ERROR", error.message, {})

\* errorHandler: the error boundary behind next(error).  For a ZodError the
\* message field stands for error.issues[0].message.
errorHandler(error) ==
  IF error.name = "ZodError"
    THEN Response(400, "VALIDATION_ERROR",
                  IF error.message = "" THEN "Validation failed" ELSE error.message, {})
  ELSE IF error.statusCode # 0
    THEN Response(error.statusCode,
                  IF error.errorCode = "" THEN "REQUEST_ERROR" ELSE error.errorCode,
                  IF error.message = "" THEN "Request failed" ELSE error.message, {})
  ELSE IF error.code = "P2002"
    THEN Response(409, "DUPLICATE_VALUE", "Unique value already exists", {})
  ELSE Response(500, "INTERNAL_SERVER_ERROR", "Something went wrong", {})

NoScopeCall ==
  [op |-> "none", role |-> "", userSchool |-> "", input |-> "", studentId |-> "",
   status |-> 0, code |-> "", schoolId |-> ""]

NoErrorCall == [error |-> PlainError(""), response |-> Response(0, "", "", {})]

ProcIds == {"p1", "p2"}
Idle ==
  [pc |-> "idle", op |-> "", token |-> NoJwt, statements |-> <<>>, stmt |-> 0,
   before |-> {}, hashBefore |-> bcryptHash(""), created |-> {}, read |-> {},
   response |-> Response(0, "", "", {})]

NoHist ==
  [rotated |-> {}, pwStale |-> {}, otpVerified |-> {}, otpCurrent |-> {},
   resetUsed |-> {}, loggedOut |-> {}]

(* -------------------------------- Init --------------------------------- *)
InitStore ==
  /\ now = 0
  /\ users = [u \in UserIds |->
                [passwordHash |-> bcryptHash(SeedPassword),
                 isActive |-> ActiveAtStart(u), lastLoginAt |-> NULL]]
  /\ refreshTokens = {}
  /\ otps = {}
  /\ issued = {}
  /\ requests = 0
  /\ hist = NoHist
  /\ InitRest

Init ==
  /\ env \in EnvConfigs
  /\ InitStore
  /\ scopeCall = NoScopeCall
  /\ errorCall = NoErrorCall
  /\ procs = [p \in ProcIds |-> Idle]

\* The clock advances.
Tick ==
  /\ now < MaxTime
  /\ now' = now + 1
  /\ UNCHANGED <<restVars, env, users, refreshTokens, otps, issued, requests, hist, scopeCall,
                 errorCall, procs>>

(* ------------------- the outcome of handling a request ----------------- *)
\* A response together with the store the handler leaves behind.
Outcome(r, u, rt, o, i, h) ==
  [response |-> r, users |-> u, refreshTokens |-> rt, otps |-> o, issued |-> i, hist |-> h]

\* A handler that responds without writing anything.
Reject(r) == Outcome(r, users, refreshTokens, otps, issued, hist)

Store == <<users, refreshTokens, otps, issued, hist>>
StoreOf(out) == <<out.users, out.refreshTokens, out.otps, out.issued, out.hist>>

\* The handler's writes reach the store; a request that wrote (or that the
\* history records) counts against MaxRequests.
Commit(out) ==
  /\ StoreOf(out) # Store => requests < MaxRequests
  /\ requests' = IF StoreOf(out) # Store THEN requests + 1 ELSE requests
  /\ users' = out.users
  /\ refreshTokens' = out.refreshTokens
  /\ otps' = out.otps
  /\ issued' = out.issued
  /\ hist' = out.hist
  /\ UNCHANGED <<restVars, env, now, scopeCall, errorCall, procs>>

\* An account is deactivated (User.isActive := false).  No handler of the
\* backend writes the column; the auth handlers read it on every request.
deactivateUser(u) ==
  /\ users[u].isActive
  /\ Commit(Outcome(Response(0, "", "", {}), [users EXCEPT ![u].isActive = FALSE],
                    refreshTokens, otps, issued, hist))

usersByEmail(e) == {u \in UserIds : UserEmail(u) = e}

(* -------------------------------- login -------------------------------- *)
\* Variant: a wrong password is reported as such.
loginResultNamingPassword(email, password) ==
  LET found == usersByEmail(toLowerCase(email)) IN
  IF ~loginSchemaOk(email, password) THEN Reject(errorHandler(ZodError))
  ELSE IF found = {} \/ \E u \in found : ~users[u].isActive
    THEN Reject(unauthorized("Invalid email or password"))
  ELSE IF \E u \in found : ~bcryptCompare(password, users[u].passwordHash)
    THEN Reject(unauthorized("Incorrect password"))
  ELSE
    LET user == CHOOSE u \in found : TRUE
        payload == buildJwtPayload(user)
        accessToken == issueAccessToken(payload)
        refreshToken == issueRefreshToken(payload, randomUUID)
    IN Outcome(success(200, "", {"accessToken", "refreshToken", "user"}),
               [users EXCEPT ![user].lastLoginAt = now],
               refreshTokens \cup
                 {[userId |-> user, tokenHash |-> hashToken(refreshToken),
                   expiresAt |-> tokenExpiryFromJwt(refreshToken), revokedAt |-> NULL]},
               otps,
               issued \cup {accessToken, refreshToken},
               hist)

loginResult(email, password) ==
  LET found == usersByEmail(toLowerCase(email)) IN
  IF ~loginSchemaOk(email, password) THEN Reject(errorHandler(ZodError))
  ELSE IF found = {} \/ \E u \in found : ~users[u].isActive
    THEN Reject(unauthorized("Invalid email or password"))
  ELSE IF \E u \in found : ~bcryptCompare(password, users[u].passwordHash)
    THEN Reject(unauthorized("Invalid email or password"))
  ELSE
    LET user == CHOOSE u \in found : TRUE
        payload == buildJwtPayload(user)
        accessToken == issueAccessToken(payload)
        refreshToken == issueRefreshToken(payload, randomUUID)
    IN Outcome(success(200, "", {"accessToken", "refreshToken", "user"}),
               [users EXCEPT ![user].lastLoginAt = now],
               refreshTokens \cup
                 {[userId |-> user, tokenHash |-> hashToken(refreshToken),
                   expiresAt |-> tokenExpiryFromJwt(refreshToken), revokedAt |-> NULL]},
               otps,
               issued \cup {accessToken, refreshToken},
               hist)

login(email, password) == Commit(loginResult(email, password))

(* ------------------------------- refresh ------------------------------- *)
storedByHash(h) == {r \in refreshTokens : r.tokenHash = h}

\* Variant: revocation deletes the rows.
revokeByDeleting(rows) == refreshTokens \ rows

\* update(Many) ... data: { revokedAt: new Date() } on the given rows.
revoke(rows) ==
  {IF r \in rows THEN [r EXCEPT !.revokedAt = now] ELSE r : r \in refreshTokens}

\* Variant: the new pair is issued but the old ledger row is left as it is.
refreshResultKeepingOld(refreshToken) ==
  LET stored == storedByHash(hashToken(refreshToken)) IN
  IF jwtVerify(refreshToken, env.JWT_REFRESH_SECRET) # "ok"
    THEN Reject(unauthorized("Invalid or expired refresh token"))
  ELSE IF refreshToken.tokenType # "refresh" \/ refreshToken.sub = ""
    THEN Reject(unauthorized("Invalid refresh token"))
  ELSE IF stored = {} \/ \E r \in stored : r.revokedAt # NULL
    THEN Reject(unauthorized("Refresh token is revoked or invalid"))
  ELSE IF \E r \in stored : r.expiresAt < now
    THEN Reject(unauthorized("Refresh token is expired"))
  ELSE IF \E r \in stored : ~users[r.userId].isActive
    THEN Reject(unauthorized("User is inactive"))
  ELSE
    LET storedToken == CHOOSE r \in stored : TRUE
        payload == buildJwtPayload(storedToken.userId)
        nextAccessToken == issueAccessToken(payload)
        nextRefreshToken == issueRefreshToken(payload, randomUUID)
    IN Outcome(success(200, "", {"accessToken", "refreshToken", "user"}),
               users,
               refreshTokens \cup
                 {[userId |-> storedToken.userId, tokenHash |-> hashToken(nextRefreshToken),
                   expiresAt |-> tokenExpiryFromJwt(nextRefreshToken), revokedAt |-> NULL]},
               otps,
               issued \cup {nextAccessToken, nextRefreshToken},
               [hist EXCEPT !.rotated = @ \cup {refreshToken}])

refreshResult(refreshToken) ==
  LET stored == storedByHash(hashToken(refreshToken)) IN
  IF jwtVerify(refreshToken, env.JWT_REFRESH_SECRET) # "ok"
    THEN Reject(unauthorized("Invalid or expired refresh token"))
  ELSE IF refreshToken.tokenType # "refresh" \/ refreshToken.sub = ""
    THEN Reject(unauthorized("Invalid refresh token"))
  ELSE IF stored = {} \/ \E r \in stored : r.revokedAt # NULL
    THEN Reject(unauthorized("Refresh token is revoked or invalid"))
  ELSE IF \E r \in stored : r.expiresAt < now
    THEN Reject(unauthorized("Refresh token is expired"))
  ELSE IF \E r \in stored : ~users[r.userId].isActive
    THEN Reject(unauthorized("User is inactive"))
  ELSE
    LET storedToken == CHOOSE r \in stored : TRUE
        payload == buildJwtPayload(storedToken.userId)
        nextAccessToken == issueAccessToken(payload)
        nextRefreshToken == issueRefreshToken(payload, randomUUID)
    IN Outcome(success(200, "", {"accessToken", "refreshToken", "user"}),
               users,
               revoke({storedToken}) \cup
                 {[userId |-> storedToken.userId, tokenHash |-> hashToken(nextRefreshToken),
                   expiresAt |-> tokenExpiryFromJwt(nextRefreshToken), revokedAt |-> NULL]},
               otps,
               issued \cup {nextAccessToken, nextRefreshToken},
               [hist EXCEPT !.rotated = @ \cup {refreshToken}])

refresh(refreshToken) == Commit(refreshResult(refreshToken))

(* -------------------------------- logout ------------------------------- *)
\* Variant: logout revokes every session of the token's user.
logoutTargetsWholeUser(refreshToken) ==
  {r \in refreshTokens :
     r.revokedAt = NULL /\ \E q \in storedByHash(hashToken(refreshToken)) : q.userId = r.userId}

\* Variant: updateMany({where: {tokenHash}}), revoked rows included.
logoutTargetsAnyRow(refreshToken) == storedByHash(hashToken(refreshToken))

\* updateMany({where: {tokenHash, revokedAt: null}}): the rows it matches.
logoutTargets(refreshToken) ==
  {r \in storedByHash(hashToken(refreshToken)) : r.revokedAt = NULL}

\* refreshToken = NoJwt: the body carries no refreshToken.
logoutResult(refreshToken) ==
  IF refreshToken = NoJwt THEN Reject(success(200, "Logged out", {"message"}))
  ELSE Outcome(success(200, "Logged out", {"message"}),
               users, revoke(logoutTargets(refreshToken)), otps, issued,
               [hist EXCEPT !.loggedOut = @ \cup {refreshToken}])

logout(refreshToken) == Commit(logoutResult(refreshToken))

(* --------------------------- forgot-password --------------------------- *)
\* updateMany ... data: { usedAt: new Date() } on the given rows.
markUsed(rows) ==
  {IF o \in rows THEN [o EXCEPT !.usedAt = now] ELSE o : o \in otps}

unusedOtps(email) == {o \in otps : o.email = email /\ o.usedAt = NULL}

GenericForgotMessage == "If your account exists, a verification code has been generated"

\* Mail dispatch.  isMailerConfigured() is a property of the environment;
\* sendOk says whether sendPasswordResetOtpEmail resolves or throws.
isMailerConfigured == env.mailerConfigured

\* Variant: the new OTP row is created without using up the earlier ones.
forgotPasswordResultKeepingOld(email, otp, sendOk) ==
  LET normalizedEmail == toLowerCase(email)
      found == usersByEmail(normalizedEmail)
  IN
  IF found = {} \/ \E u \in found : ~users[u].isActive
    THEN Reject(success(200, GenericForgotMessage, {"message"}))
  ELSE
    LET written ==
          otps \cup
            {[id |-> Cardinality(otps) + 1, email |-> normalizedEmail,
              otpHash |-> bcryptHash(otp), expiresAt |-> now + OtpTTL,
              usedAt |-> NULL, createdAt |-> now]}
        r == IF isMailerConfigured /\ ~sendOk
               THEN errorHandler(PlainError("mail transport failed"))
             ELSE IF ~isMailerConfigured /\ env.NODE_ENV = "production"
               THEN errorHandler(PlainError("Email service is not configured in production"))
             ELSE success(200, GenericForgotMessage,
                          {"message", "otpExpiresAt"} \cup
                            (IF env.NODE_ENV = "production" THEN {} ELSE {"debugOtp"}))
    IN Outcome(r, users, refreshTokens, written, issued,
               [hist EXCEPT !.otpCurrent = {q \in @ : q[1] # normalizedEmail}])

\* otp: the value crypto.randomInt draws.
forgotPasswordResult(email, otp, sendOk) ==
  LET normalizedEmail == toLowerCase(email)
      found == usersByEmail(normalizedEmail)
  IN
  IF found = {} \/ \E u \in found : ~users[u].isActive
    THEN Reject(success(200, GenericForgotMessage, {"message"}))
  ELSE
    LET written ==
          markUsed(unusedOtps(normalizedEmail)) \cup
            {[id |-> Cardinality(otps) + 1, email |-> normalizedEmail,
              otpHash |-> bcryptHash(otp), expiresAt |-> now + OtpTTL,
              usedAt |-> NULL, createdAt |-> now]}
        r == IF isMailerConfigured /\ ~sendOk
               THEN errorHandler(PlainError("mail transport failed"))
             ELSE IF ~isMailerConfigured /\ env.NODE_ENV = "production"
               THEN errorHandler(PlainError("Email service is not configured in production"))
             ELSE success(200, GenericForgotMessage,
                          {"message", "otpExpiresAt"} \cup
                            (IF env.NODE_ENV = "production" THEN {} ELSE {"debugOtp"}))
    IN Outcome(r, users, refreshTokens, written, issued,
               [hist EXCEPT !.otpCurrent = {q \in @ : q[1] # normalizedEmail}])

forgotPassword(email, otp, sendOk) ==
  /\ isMailerConfigured \/ sendOk
  /\ Commit(forgotPasswordResult(email, otp, sendOk))

(* ------------------------------ verify-otp ----------------------------- *)
\* findFirst({where: {email, usedAt: null}, orderBy: {createdAt: "desc"}}):
\* the rows it may return (more than one only on equal createdAt).
findFirstUnusedOtp(email) ==
  {o \in unusedOtps(email) : \A q \in unusedOtps(email) : q.createdAt <= o.createdAt}

\* Variant: a verified OTP row is not marked used.
verifyOtpWithKeepingUnused(email, otp, record) ==
  LET normalizedEmail == toLowerCase(email)
      found == usersByEmail(normalizedEmail)
  IN
  IF record.expiresAt <= now THEN Reject(invalidOtp)
  ELSE IF ~bcryptCompare(otp, record.otpHash) THEN Reject(invalidOtp)
  ELSE IF found = {} \/ \E u \in found : ~users[u].isActive THEN Reject(invalidOtp)
  ELSE
    LET user == CHOOSE u \in found : TRUE
        resetToken == issuePasswordResetToken(
                        [sub |-> user, email |-> UserEmail(user)], randomUUID)
    IN Outcome(success(200, "", {"resetToken", "expiresIn"}),
               users, refreshTokens, otps, issued \cup {resetToken},
               [hist EXCEPT !.otpVerified = @ \cup {<<normalizedEmail, otp>>},
                            !.otpCurrent = @ \cup {<<normalizedEmail, otp>>}])

\* verify-otp once findFirst has returned `record`.
verifyOtpWith(email, otp, record) ==
  LET normalizedEmail == toLowerCase(email)
      found == usersByEmail(normalizedEmail)
  IN
  IF record.expiresAt <= now THEN Reject(invalidOtp)
  ELSE IF ~bcryptCompare(otp, record.otpHash) THEN Reject(invalidOtp)
  ELSE IF found = {} \/ \E u \in found : ~users[u].isActive THEN Reject(invalidOtp)
  ELSE
    LET user == CHOOSE u \in found : TRUE
        resetToken == issuePasswordResetToken(
                        [sub |-> user, email |-> UserEmail(user)], randomUUID)
    IN Outcome(success(200, "", {"resetToken", "expiresIn"}),
               users, refreshTokens, markUsed({record}), issued \cup {resetToken},
               [hist EXCEPT !.otpVerified = @ \cup {<<normalizedEmail, otp>>},
                            !.otpCurrent = @ \cup {<<normalizedEmail, otp>>}])

\* The outcomes verify-otp can have for (email, otp) in the current state.
verifyOtpResults(email, otp) ==
  LET records == findFirstUnusedOtp(toLowerCase(email)) IN
  IF ~otpFormatOk(otp) THEN {Reject(errorHandler(ZodError))}
  ELSE IF records = {} THEN {Reject(invalidOtp)}
  ELSE {verifyOtpWith(email, otp, record) : record \in records}

verifyOtp(email, otp) == \E out \in verifyOtpResults(email, otp) : Commit(out)

(* ---------------------------- reset-password --------------------------- *)
unrevokedOf(userId) == {r \in refreshTokens : r.userId = userId /\ r.revokedAt = NULL}

refreshTokensIssuedTo(userId) == {t \in issued : t.tokenType = "refresh" /\ t.sub = userId}

resetPasswordResult(resetToken, newPassword) ==
  IF ~newPasswordOk(newPassword) THEN Reject(errorHandler(ZodError))
  ELSE IF jwtVerify(resetToken, passwordResetSecret) # "ok" THEN Reject(invalidResetToken)
  ELSE IF resetToken.tokenType # "password_reset" \/ resetToken.sub = "" \/ resetToken.email = ""
    THEN Reject(invalidResetToken)
  ELSE IF resetToken.sub \notin UserIds THEN Reject(invalidResetToken)
  ELSE IF ~users[resetToken.sub].isActive \/ UserEmail(resetToken.sub) # resetToken.email
    THEN Reject(invalidResetToken)
  ELSE
    LET user == resetToken.sub IN
    Outcome(success(200, "Password reset successful. Please login again.", {"message"}),
            [users EXCEPT ![user].passwordHash = bcryptHash(newPassword)],
            revoke(unrevokedOf(user)),
            markUsed(unusedOtps(UserEmail(user))),
            issued,
            [hist EXCEPT !.resetUsed = @ \cup {resetToken},
                         !.pwStale = @ \cup refreshTokensIssuedTo(user)])

resetPassword(resetToken, newPassword) == Commit(resetPasswordResult(resetToken, newPassword))

(* ----------------------- protected-route authenticator ------------------ *)
PassToHandler == Response(0, "NEXT", "", {})

\* Variant: any token the access secret verifies is accepted.
authBySignatureOnly(token) ==
  IF token = NoJwt THEN unauthorized("Missing access token")
  ELSE IF jwtVerify(token, env.JWT_ACCESS_SECRET) = "ok"
    THEN IF token.sub = ""
           THEN unauthorized("Invalid access token")
         ELSE PassToHandler
  ELSE IF jwtVerify(token, env.JWT_REFRESH_SECRET) = "ok" /\ token.tokenType = "refresh"
    THEN unauthorized("Refresh token cannot be used here. Send accessToken in Authorization header.")
  ELSE IF jwtVerify(token, env.JWT_ACCESS_SECRET) = "TokenExpiredError"
    THEN Response(401, "TOKEN_EXPIRED", "Access token expired", {})
  ELSE unauthorized("Invalid or expired access token")

\* Variant: an expired access token is still passed on.
authIgnoringExpiry(token) ==
  IF token = NoJwt THEN unauthorized("Missing access token")
  ELSE IF jwtVerify(token, env.JWT_ACCESS_SECRET) \in {"ok", "TokenExpiredError"}
    THEN IF token.tokenType # "access" \/ token.sub = ""
           THEN unauthorized("Invalid access token")
         ELSE PassToHandler
  ELSE IF jwtVerify(token, env.JWT_REFRESH_SECRET) = "ok" /\ token.tokenType = "refresh"
    THEN unauthorized("Refresh token cannot be used here. Send accessToken in Authorization header.")
  ELSE unauthorized("Invalid or expired access token")

\* auth(req, res, next) for the token candidate found in the request
\* (NoJwt: no candidate).  PassToHandler stands for req.user = payload; next().
auth(token) ==
  IF token = NoJwt THEN unauthorized("Missing access token")
  ELSE IF jwtVerify(token, env.JWT_ACCESS_SECRET) = "ok"
    THEN IF token.tokenType # "access" \/ token.sub = ""
           THEN unauthorized("Invalid access token")
         ELSE PassToHandler
  ELSE IF jwtVerify(token, env.JWT_REFRESH_SECRET) = "ok" /\ token.tokenType = "refresh"
    THEN unauthorized("Refresh token cannot be used here. Send accessToken in Authorization header.")
  ELSE IF jwtVerify(token, env.JWT_ACCESS_SECRET) = "TokenExpiredError"
    THEN Response(401, "TOKEN_EXPIRED", "Access token expired", {})
  ELSE unauthorized("Invalid or expired access token")

(* ---------------------------- change-password -------------------------- *)
\* changePasswordSchema: currentPassword.min(6) and the composition policy.
changePasswordSchemaOk(currentPassword, newPassword) ==
  Len(currentPassword) >= 6 /\ newPasswordOk(newPassword)

\* Variant: the password is replaced and the user's sessions are kept.
changePasswordResultKeepingSessions(token, currentPassword, newPassword) ==
  IF auth(token) # PassToHandler THEN Reject(auth(token))
  ELSE IF ~changePasswordSchemaOk(currentPassword, newPassword)
    THEN Reject(errorHandler(ZodError))
  ELSE IF token.sub \notin UserIds \/ ~users[token.sub].isActive
    THEN Reject(unauthorized("User is inactive"))
  ELSE IF ~bcryptCompare(currentPassword, users[token.sub].passwordHash)
    THEN Reject(unauthorized("Current password is incorrect"))
  ELSE IF bcryptCompare(newPassword, users[token.sub].passwordHash)
    THEN Reject(Response(400, "BAD_REQUEST",
                         "New password must be different from current password", {}))
  ELSE
    LET user == token.sub IN
    Outcome(success(200, "Password changed successfully. Please login again.", {"message"}),
            [users EXCEPT ![user].passwordHash = bcryptHash(newPassword)],
            refreshTokens,
            otps,
            issued,
            [hist EXCEPT !.pwStale = @ \cup refreshTokensIssuedTo(user)])

\* Variant: the transaction runs before the comparison of the new password
\* with the current one.
changePasswordResultWritingFirst(token, currentPassword, newPassword) ==
  IF auth(token) # PassToHandler THEN Reject(auth(token))
  ELSE IF ~changePasswordSchemaOk(currentPassword, newPassword)
    THEN Reject(errorHandler(ZodError))
  ELSE IF token.sub \notin UserIds \/ ~users[token.sub].isActive
    THEN Reject(unauthorized("User is inactive"))
  ELSE IF ~bcryptCompare(currentPassword, users[token.sub].passwordHash)
    THEN Reject(unauthorized("Current password is incorrect"))
  ELSE
    LET user == token.sub IN
    Outcome(IF bcryptCompare(newPassword, users[user].passwordHash)
              THEN Response(400, "BAD_REQUEST",
                            "New password must be different from current password", {})
            ELSE success(200, "Password changed successfully. Please login again.", {"message"}),
            [users EXCEPT ![user].passwordHash = bcryptHash(newPassword)],
            revoke(unrevokedOf(user)),
            otps,
            issued,
            [hist EXCEPT !.pwStale = @ \cup refreshTokensIssuedTo(user)])

\* POST /auth/change-password: auth, then changePassword.
changePasswordResult(token, currentPassword, newPassword) ==
  IF auth(token) # PassToHandler THEN Reject(auth(token))
  ELSE IF ~changePasswordSchemaOk(currentPassword, newPassword)
    THEN Reject(errorHandler(ZodError))
  ELSE IF token.sub \notin UserIds \/ ~users[token.sub].isActive
    THEN Reject(unauthorized("User is inactive"))
  ELSE IF ~bcryptCompare(currentPassword, users[token.sub].passwordHash)
    THEN Reject(unauthorized("Current password is incorrect"))
  ELSE IF bcryptCompare(newPassword, users[token.sub].passwordHash)
    THEN Reject(Response(400, "BAD_REQUEST",
                         "New password must be different from current password", {}))
  ELSE
    LET user == token.sub IN
    Outcome(success(200, "Password changed successfully. Please login again.", {"message"}),
            [users EXCEPT ![user].passwordHash = bcryptHash(newPassword)],
            revoke(unrevokedOf(user)),
            otps,
            issued,
            [hist EXCEPT !.pwStale = @ \cup refreshTokensIssuedTo(user)])

changePassword(token, currentPassword, newPassword) ==
  Commit(changePasswordResult(token, currentPassword, newPassword))

(* --------------------------------- Next -------------------------------- *)
\* Tokens a client can present: everything issued, or a forgery.
TokenInputs == issued \cup {ForgedJwt}

TokensOfKind(kind) == {t \in TokenInputs : t.tokenType = kind}

\* A rejected request leaves the store as it is (Reject), so presenting a
\* token of the wrong kind never leads to a new state; Next presents to each
\* endpoint the tokens of its own kind and the forgery, and the properties
\* below quantify over every token in TokenInputs.
Next ==
  \/ Tick
  \/ \E u \in UserIds : deactivateUser(u)
  \/ \E e \in EmailInputs, p \in PasswordInputs : login(e, p)
  \/ \E t \in TokensOfKind("refresh") : refresh(t)
  \/ \E t \in TokensOfKind("refresh") \cup {NoJwt} : logout(t)
  \/ \E e \in EmailInputs, o \in OtpCodes, sendOk \in BOOLEAN : forgotPassword(e, o, sendOk)
  \/ \E e \in EmailInputs, o \in OtpInputs : verifyOtp(e, o)
  \/ \E t \in TokensOfKind("password_reset"), p \in PasswordInputs : resetPassword(t, p)
  \/ \E t \in TokensOfKind("access"), c \in PasswordInputs, p \in PasswordInputs :
       changePassword(t, c, p)

Spec == Init /\ [][Next]_vars

(* ============================ tenant scoping ============================ *)
Roles == {"SUPERADMIN", "SCHOOLADMIN", "ACCOUNTANT", "HR", "TEACHER", "PARENT"}
Schools == {"schoolA", "schoolB"}

\* req.user of an authenticated request: the payload of its access token.
Callers ==
  {c \in [role : Roles, schoolId : Schools \cup {NoSchool}] :
     c.role = "SUPERADMIN" <=> c.schoolId = NoSchool}
  \cup {[role |-> "HR", schoolId |-> NoSchool]}

\* A schoolId parameter of a request: absent, or the id of a school.
SchoolInputs == Schools \cup {Undefined}

\* Student rows of the store: id -> schoolId.
StudentIds == DOMAIN students
StudentSchool(id) == students[id].schoolId
StudentIdInputs == {"stuA", "stuB", "stu404"}

Return(v) == [threw |-> FALSE, value |-> v, error |-> PlainError("")]
Throw(e) == [threw |-> TRUE, value |-> "", error |-> e]

isSuperadmin(user) == user.role = "SUPERADMIN"

\* Variant: a tenant-bound caller silently gets its own school.
resolveSchoolIdIgnoringInput(user, schoolIdInput, requireForSuperadmin) ==
  IF isSuperadmin(user)
    THEN LET schoolId == IF schoolIdInput = Undefined THEN NoSchool ELSE schoolIdInput IN
         IF requireForSuperadmin /\ schoolId = NoSchool
           THEN Throw(badRequest("schoolId is required for SUPERADMIN", "SCHOOL_CONTEXT_REQUIRED"))
         ELSE Return(schoolId)
  ELSE IF user.schoolId = NoSchool
    THEN Throw(forbidden("School context is missing for current user"))
  ELSE Return(user.schoolId)

\* schoolScope.js
resolveSchoolId(user, schoolIdInput, requireForSuperadmin) ==
  IF isSuperadmin(user)
    THEN LET schoolId == IF schoolIdInput = Undefined THEN NoSchool ELSE schoolIdInput IN
         IF requireForSuperadmin /\ schoolId = NoSchool
           THEN Throw(badRequest("schoolId is required for SUPERADMIN", "SCHOOL_CONTEXT_REQUIRED"))
         ELSE Return(schoolId)
  ELSE IF user.schoolId = NoSchool
    THEN Throw(forbidden("School context is missing for current user"))
  ELSE IF schoolIdInput # Undefined /\ schoolIdInput # user.schoolId
    THEN Throw(forbidden("Cannot access another school's data"))
  ELSE Return(user.schoolId)

\* school.common: schoolIdInput || req.query.schoolId
scopedSchoolId(user, schoolIdInput, querySchoolId, requireForSuperadmin) ==
  resolveSchoolId(user,
                  IF schoolIdInput # Undefined THEN schoolIdInput ELSE querySchoolId,
                  requireForSuperadmin)

\* students.handlers.js
getRequestSchoolId(user, schoolIdInput) ==
  IF user.role = "SUPERADMIN"
    THEN Return(IF schoolIdInput = Undefined THEN NoSchool ELSE schoolIdInput)
  ELSE IF user.schoolId = NoSchool
    THEN Throw(forbidden("School context is missing for current user"))
  ELSE Return(user.schoolId)

ensureSchoolScopeForList(user, schoolIdInput) ==
  LET schoolId == getRequestSchoolId(user, schoolIdInput) IN
  IF schoolId.threw THEN schoolId
  ELSE IF schoolId.value = NoSchool
    THEN Throw(badRequest("schoolId is required for SUPERADMIN while listing students",
                          "SCHOOL_CONTEXT_REQUIRED"))
  ELSE schoolId

\* Returns the student's schoolId, or throws STUDENT_NOT_FOUND.
findScopedStudentOrThrow(user, studentId, schoolIdInput) ==
  LET callerSchoolId == getRequestSchoolId(user, schoolIdInput)
      studentNotFound == createHttpError(404, "Student not found", "STUDENT_NOT_FOUND")
  IN
  IF callerSchoolId.threw THEN callerSchoolId
  ELSE IF studentId \notin StudentIds THEN Throw(studentNotFound)
  ELSE IF user.role # "SUPERADMIN" /\ StudentSchool(studentId) # callerSchoolId.value
    THEN Throw(studentNotFound)
  ELSE IF user.role = "SUPERADMIN" /\ callerSchoolId.value # NoSchool
          /\ StudentSchool(studentId) # callerSchoolId.value
    THEN Throw(studentNotFound)
  ELSE Return(StudentSchool(studentId))

\* requireRole(allowedRoles): TRUE when the request is passed on.
requireRole(allowedRoles, user) == user.role \in allowedRoles

SchoolRouteRoles == {"SUPERADMIN", "SCHOOLADMIN", "HR", "ACCOUNTANT"}

\* The response to a tenant-scoped request whose scope resolution gave
\* `scope`: the error boundary's answer if it threw, else `status`.
ScopeCall(op, user, schoolIdInput, id, allowedRoles, scope, status) ==
  LET r == IF ~requireRole(allowedRoles, user)
             THEN Response(403, "FORBIDDEN", "Access denied for this role", {})
           ELSE IF scope.threw THEN errorHandler(scope.error)
           ELSE success(status, "", {})
  IN [NoScopeCall EXCEPT !.op = op, !.role = user.role, !.userSchool = user.schoolId,
      !.input = schoolIdInput, !.studentId = id, !.status = r.status, !.code = r.code,
      !.schoolId = IF r.status = status THEN scope.value ELSE ""]

ScopeStep(call) ==
  /\ scopeCall' = call
  /\ UNCHANGED <<restVars, env, now, users, refreshTokens, otps, issued, requests, hist,
                 errorCall, procs>>

\* GET /school/students?schoolId=
listStudents(user, schoolId) ==
  ScopeStep(ScopeCall("listStudents", user, schoolId, "", SchoolRouteRoles,
                      ensureSchoolScopeForList(user, schoolId), 200))

\* POST /school/students {schoolId}
createStudent(user, schoolId) ==
  LET resolved == getRequestSchoolId(user, schoolId)
      scope == IF ~resolved.threw /\ resolved.value = NoSchool
                 THEN Throw(badRequest("schoolId is required for SUPERADMIN while creating student",
                                       "SCHOOL_CONTEXT_REQUIRED"))
               ELSE resolved
  IN ScopeStep(ScopeCall("createStudent", user, schoolId, "", SchoolRouteRoles, scope, 201))

\* GET /school/students/:id?schoolId=
getStudentById(user, studentId, schoolId) ==
  ScopeStep(ScopeCall("getStudentById", user, schoolId, studentId, SchoolRouteRoles,
                      findScopedStudentOrThrow(user, studentId, schoolId), 200))

\* GET /dashboard/school-admin?schoolId=  (also /hr and /accountant)
schoolAdminDashboard(user, schoolId) ==
  ScopeStep(ScopeCall("schoolAdminDashboard", user, schoolId, "", Roles,
                      resolveSchoolId(user, schoolId, FALSE), 200))

\* GET /school/invoices?schoolId=
listInvoices(user, schoolId) ==
  ScopeStep(ScopeCall("listInvoices", user, schoolId, "", SchoolRouteRoles,
                      scopedSchoolId(user, schoolId, schoolId, TRUE), 200))

InitScope ==
  /\ env \in {e \in EnvConfigs : e.PASSWORD_RESET_SECRET = "k1"}
  /\ InitStore
  /\ scopeCall = NoScopeCall
  /\ errorCall = NoErrorCall
  /\ procs = [p \in ProcIds |-> Idle]

NextScope ==
  \/ \E c \in Callers, s \in SchoolInputs : listStudents(c, s)
  \/ \E c \in Callers, s \in SchoolInputs : createStudent(c, s)
  \/ \E c \in Callers, id \in StudentIdInputs, s \in SchoolInputs : getStudentById(c, id, s)
  \/ \E c \in Callers, s \in SchoolInputs : schoolAdminDashboard(c, s)
  \/ \E c \in Callers, s \in SchoolInputs : listInvoices(c, s)

SpecScope == InitScope /\ [][NextScope]_vars
(* ============================== properties ============================= *)
\* Tokens of every kind signed with every key, whoever signed them.
CraftedJwts ==
  {[ForgedJwt EXCEPT !.tokenType = k, !.key = s] :
     k \in {"access", "refresh", "password_reset"}, s \in {"k1", "k2", "k3", "kx"}}

AnyJwt == issued \cup CraftedJwts

\* C1 -- Refresh rotation: once a refresh call with refresh token T has
\* succeeded, every later refresh call with T is answered 401 and issues
\* nothing, also while T has not reached its expiry.
C1_RotatedTokenRejected ==
  \A T \in hist.rotated :
    /\ refreshResult(T).response.status = 401
    /\ refreshResult(T).issued = issued

\* A rotated token that is still within its lifetime, its user active.
C1_Witness ==
  \E T \in hist.rotated :
    /\ jwtVerify(T, env.JWT_REFRESH_SECRET) = "ok"
    /\ users[T.sub].isActive
    /\ \E r \in storedByHash(hashToken(T)) : r.expiresAt >= now

C4_VerifiedCodeAlwaysFails ==
  \A q \in hist.otpVerified : \A e \in EmailInputs :
    toLowerCase(e) = q[1] =>
      \A out \in verifyOtpResults(e, q[2]) : out.response = invalidOtp

\* C4 (amended) -- after one successful verify-otp with code c for an email,
\* verify-otp with the same c for that email answers the generic invalid-OTP
\* response for as long as no later forgot-password has issued a new OTP for
\* that email.
C4_VerifiedCodeFailsUntilReissue ==
  \A q \in hist.otpCurrent : \A e \in EmailInputs :
    toLowerCase(e) = q[1] =>
      \A out \in verifyOtpResults(e, q[2]) : out.response = invalidOtp /\ out.otps = otps

\* A verified code whose OTP row has not reached its expiry.
C4_Witness ==
  \E q \in hist.otpCurrent : \E o \in otps :
    /\ o.email = q[1]
    /\ bcryptCompare(q[2], o.otpHash)
    /\ o.usedAt # NULL
    /\ o.expiresAt > now

\* C5 -- At most one unused OTP per email: every email has at most one
\* PasswordResetOtp row with usedAt unset, an OTP row issued before the
\* latest forgot-password of its email is used, and so verify-otp never
\* reads it.
C5_AtMostOneUnusedOtp ==
  \A e \in EmailInputs :
    LET email == toLowerCase(e) IN
    /\ Cardinality(unusedOtps(email)) <= 1
    /\ \A o \in otps :
         (o.email = email /\ \E q \in otps : q.email = email /\ q.id > o.id)
           => o.usedAt # NULL /\ o \notin findFirstUnusedOtp(email)

\* An email with an earlier OTP row and a later, unused and unexpired one.
C5_Witness ==
  \E o \in otps, q \in otps :
    /\ o.email = q.email
    /\ o.id < q.id
    /\ q.usedAt = NULL
    /\ o.expiresAt > now

\* C6 -- The password-reset token is single use: once reset-password has
\* succeeded with reset token R, every later reset-password with R answers
\* the invalid-reset-token response.
C6_ResetTokenSingleUse ==
  \A R \in hist.resetUsed : \A p \in PasswordInputs :
    newPasswordOk(p) => resetPasswordResult(R, p).response = invalidResetToken

\* C7 -- Token kinds are not interchangeable: the protected-route
\* authenticator passes only tokens of kind access, refresh succeeds only
\* with tokens of kind refresh and reset-password only with tokens of kind
\* password_reset, under every secret configuration.
C7_TokenKindsNotInterchangeable ==
  \A t \in AnyJwt :
    /\ auth(t) = PassToHandler => t.tokenType = "access"
    /\ changePasswordResult(t, SeedPassword, "NewPass1!").response.status = 200
         => t.tokenType = "access"
    /\ refreshResult(t).response.status = 200 => t.tokenType = "refresh"
    /\ \A p \in PasswordInputs :
         resetPasswordResult(t, p).response.status = 200 => t.tokenType = "password_reset"

\* An unexpired refresh token in a deployment whose access secret equals
\* its refresh secret: the signature check of the authenticator passes.
C7_Witness ==
  \E t \in issued :
    /\ t.tokenType = "refresh"
    /\ env.JWT_ACCESS_SECRET = env.JWT_REFRESH_SECRET
    /\ jwtVerify(t, env.JWT_ACCESS_SECRET) = "ok"
    /\ auth(t) = unauthorized("Invalid access token")

\* The mail step of forgot-password can have the outcome sendOk.
MailOutcome(sendOk) == isMailerConfigured \/ sendOk

\* C8 -- No enumeration on forgot-password: for two valid emails, whether
\* or not they belong to an active account, the forgot-password responses
\* have the same status code and the same set of fields.
C8_ForgotPasswordSameShape ==
  \A e1 \in EmailInputs, e2 \in EmailInputs, o \in OtpCodes, sendOk \in BOOLEAN :
    MailOutcome(sendOk) =>
      LET r1 == forgotPasswordResult(e1, o, sendOk).response
          r2 == forgotPasswordResult(e2, o, sendOk).response
      IN r1.status = r2.status /\ r1.fields = r2.fields

\* The ways a login fails on its credentials.
UnknownEmail(e) == usersByEmail(toLowerCase(e)) = {}
InactiveAccount(e) == \E u \in usersByEmail(toLowerCase(e)) : ~users[u].isActive
WrongPassword(e, p) ==
  \E u \in usersByEmail(toLowerCase(e)) :
    users[u].isActive /\ ~bcryptCompare(p, users[u].passwordHash)

\* C9 -- Login failure is non-distinguishing: a login with an unknown
\* email, with the email of an inactive account or with a wrong password
\* is answered 401 UNAUTHORIZED with one and the same message, and writes
\* neither a ledger row nor lastLoginAt.
C9_LoginFailureUniform ==
  \A e \in EmailInputs, p \in PasswordInputs :
    (loginSchemaOk(e, p) /\ (UnknownEmail(e) \/ InactiveAccount(e) \/ WrongPassword(e, p)))
      => loginResult(e, p) = Reject(unauthorized("Invalid email or password"))

\* All three failures are possible, after an earlier successful login.
C9_Witness ==
  /\ refreshTokens # {}
  /\ \E e \in EmailInputs : UnknownEmail(e)
  /\ \E e \in EmailInputs : InactiveAccount(e)
  /\ \E e \in EmailInputs, p \in PasswordInputs : loginSchemaOk(e, p) /\ WrongPassword(e, p)

\* C10 -- Idempotent logout: a further logout with a refresh token that
\* has been logged out answers 200 "Logged out" and leaves the ledger as
\* it is; revokedAt is not rewritten.
C10_LogoutIdempotent ==
  \A T \in hist.loggedOut :
    /\ logoutResult(T).response = success(200, "Logged out", {"message"})
    /\ logoutResult(T).refreshTokens = refreshTokens

\* A logged-out token whose ledger row was revoked at an earlier time.
C10_Witness ==
  \E T \in hist.loggedOut : \E r \in storedByHash(hashToken(T)) :
    r.revokedAt # NULL /\ r.revokedAt < now

\* C3 -- Cross-tenant denial: a request of a caller bound to school A that
\* names a school B other than A is answered 403, on every endpoint that
\* takes a schoolId.
C3_CrossTenantDenied ==
  (/\ scopeCall.op # "none"
   /\ scopeCall.role # "SUPERADMIN"
   /\ scopeCall.userSchool # NoSchool
   /\ scopeCall.input \notin {Undefined, scopeCall.userSchool})
    => scopeCall.status = 403

\* Tokens whose sub claim is not a string.
SublessJwts == {[t EXCEPT !.sub = ""] : t \in CraftedJwts}

\* C11 -- The authenticator passes a request on exactly when a token
\* candidate was found, it verifies against the access secret, its tokenType
\* is "access" and its sub is a string; in every other case its one response
\* is a 401.
C11_AuthPassesIffValidAccess ==
  \A t \in AnyJwt \cup SublessJwts \cup {NoJwt} :
    LET valid == /\ t # NoJwt
                 /\ jwtVerify(t, env.JWT_ACCESS_SECRET) = "ok"
                 /\ t.tokenType = "access"
                 /\ t.sub # ""
    IN /\ auth(t) = PassToHandler <=> valid
       /\ ~valid => auth(t).status = 401

\* One issued access token is passed on while another has expired.
C11_Witness ==
  \E t \in issued, x \in issued :
    /\ auth(t) = PassToHandler
    /\ x.tokenType = "access"
    /\ auth(x).code = "TOKEN_EXPIRED"

\* C12 -- A refresh token presented to the authenticator is reported with
\* the message "Refresh token cannot be used here...", for every valid
\* unexpired refresh token under every pair of access and refresh secret.
C12_RefreshTokenReportedDistinctly ==
  \A t \in issued :
    (t.tokenType = "refresh" /\ jwtVerify(t, env.JWT_REFRESH_SECRET) = "ok")
      => auth(t) = unauthorized("Refresh token cannot be used here. Send accessToken in Authorization header.")

\* Every req.user: any role with or without a schoolId.
AllCallers == [role : Roles, schoolId : Schools \cup {NoSchool}]

\* The resolver as the claim describes it: "ok" with a school id (NoSchool
\* for the platform-wide view) or "error".
ReferenceResolver(user, requested, required) ==
  IF user.role = "SUPERADMIN"
    THEN IF requested # Undefined THEN <<"ok", requested>>
         ELSE IF required THEN <<"error", "">>
         ELSE <<"ok", NoSchool>>
  ELSE IF user.schoolId = NoSchool THEN <<"error", "">>
  ELSE IF requested # Undefined /\ requested # user.schoolId THEN <<"error", "">>
  ELSE <<"ok", user.schoolId>>

\* C13 -- resolveSchoolId agrees with the reference resolver for every
\* role, caller schoolId, requested schoolId and requireForSuperadmin, and a
\* caller other than SUPERADMIN never receives a schoolId other than its own;
\* a dashboard or invoice request that succeeded ran in the school the
\* reference gives.
C13_ResolveSchoolIdMatchesReference ==
  \A user \in AllCallers, requested \in SchoolInputs, required \in BOOLEAN :
    LET got == resolveSchoolId(user, requested, required) IN
    /\ ReferenceResolver(user, requested, required)
         = (IF got.threw THEN <<"error", "">> ELSE <<"ok", got.value>>)
    /\ (user.role # "SUPERADMIN" /\ ~got.threw) => got.value = user.schoolId
    /\ (/\ scopeCall.op \in {"schoolAdminDashboard", "listInvoices"}
        /\ scopeCall.role = user.role
        /\ scopeCall.userSchool = user.schoolId
        /\ scopeCall.input = requested
        /\ scopeCall.status \in {200, 201})
         => ReferenceResolver(user, requested, scopeCall.op = "listInvoices")
              = <<"ok", scopeCall.schoolId>>

\* A dashboard request of a tenant-bound caller naming another school has
\* been refused by the resolver.
C13_Witness ==
  /\ scopeCall.op = "schoolAdminDashboard"
  /\ scopeCall.role # "SUPERADMIN"
  /\ scopeCall.userSchool # NoSchool
  /\ scopeCall.input \notin {Undefined, scopeCall.userSchool}
  /\ scopeCall.status = 403

\* The refresh token passes the signature, expiry and kind checks, and the
\* request is refused on the ledger.
LedgerRefusal(t) ==
  /\ jwtVerify(t, env.JWT_REFRESH_SECRET) = "ok"
  /\ t.tokenType = "refresh"
  /\ t.sub # ""
  /\ refreshResult(t).response.status # 200

\* C14 -- Refresh failures are generic: for refresh tokens with a valid
\* signature and kind, every ledger-check failure (entry missing, revoked,
\* expired, user inactive) has one and the same response, and writes nothing.
C14_LedgerFailuresIndistinguishable ==
  \A t \in AnyJwt, x \in AnyJwt :
    (LedgerRefusal(t) /\ LedgerRefusal(x))
      => /\ refreshResult(t).response = refreshResult(x).response
         /\ refreshResult(t).refreshTokens = refreshTokens

\* C16 -- A SUPERADMIN request that omits the schoolId on an operation that
\* requires one is answered 403, like a cross-tenant access.
C16_SuperadminWithoutSchoolForbidden ==
  (/\ scopeCall.op \in {"listStudents", "createStudent", "listInvoices"}
   /\ scopeCall.role = "SUPERADMIN"
   /\ scopeCall.input = Undefined)
    => scopeCall.status = 403

\* The other sessions: refresh tokens that refresh would accept.
Refreshable(t) == refreshResult(t).response.status = 200

\* C17 -- Sessions are independently revocable: a logout with refresh token
\* T changes only the ledger rows whose hash is that of T, and of those only
\* revokedAt; every other ledger row, every user record and every OTP record
\* stays as it is, and every other refresh token that could be refreshed
\* before the logout can be refreshed after it.
C17_LogoutRevokesOnlyItsSession ==
  [][\A T \in TokenInputs :
       logout(T) =>
         /\ users' = users
         /\ otps' = otps
         /\ \A r \in refreshTokens : r.tokenHash # hashToken(T) => r \in refreshTokens'
         /\ \A r \in refreshTokens' :
              r \in refreshTokens \/
                \E q \in refreshTokens :
                  q.tokenHash = hashToken(T) /\ q.revokedAt = NULL /\ r = [q EXCEPT !.revokedAt = now]
         /\ \A x \in issued : (x # T /\ Refreshable(x)) => Refreshable(x)']_vars

\* A user with two sessions, one logged out and the other still refreshable.
C17_Witness ==
  \E T \in hist.loggedOut, x \in issued :
    /\ x # T
    /\ x.sub = T.sub
    /\ storedByHash(hashToken(T)) # {}
    /\ Refreshable(x)

(* ============================ error boundary ============================ *)
\* Errors a handler can pass to next(error): validation errors, typed HTTP
\* errors, storage errors (P2002 unique violation, P2025 row not found) and
\* plain errors, with and without each field.
ErrorInputs ==
  [name : {"ZodError", "Error", "PrismaClientKnownRequestError"},
   statusCode : {0, 400, 403, 404},
   errorCode : {"", "FORBIDDEN", "STUDENT_NOT_FOUND"},
   code : {"", "P2002", "P2025"},
   message : {"", "Required", "Unique constraint failed on the fields: (tokenHash)"}]

\* next(error): the boundary answers.
passToErrorHandler(error) ==
  /\ errorCall' = [error |-> error, response |-> errorHandler(error)]
  /\ UNCHANGED <<restVars, env, now, users, refreshTokens, otps, issued, requests, hist,
                 scopeCall, procs>>

InitErrors ==
  /\ env \in {e \in EnvConfigs : e.PASSWORD_RESET_SECRET = "k1"}
  /\ InitStore
  /\ scopeCall = NoScopeCall
  /\ errorCall = NoErrorCall
  /\ procs = [p \in ProcIds |-> Idle]

NextErrors == \E error \in ErrorInputs : passToErrorHandler(error)

SpecErrors == InitErrors /\ [][NextErrors]_vars

\* C18 -- The error boundary gives every error one response: a ZodError 400
\* VALIDATION_ERROR; a typed error its statusCode and errorCode; a P2002
\* storage error 409 with a fixed message; any other error 500
\* INTERNAL_SERVER_ERROR with a fixed message.
C18_ErrorBoundaryClassifies ==
  LET error == errorCall.error
      r == errorCall.response
  IN errorCall # NoErrorCall =>
       IF error.name = "ZodError"
         THEN r.status = 400 /\ r.code = "VALIDATION_ERROR"
       ELSE IF error.statusCode # 0
         THEN /\ r.status = error.statusCode
              /\ r.code = (IF error.errorCode = "" THEN "REQUEST_ERROR" ELSE error.errorCode)
       ELSE IF error.code = "P2002"
         THEN r = Response(409, "DUPLICATE_VALUE", "Unique value already exists", {})
       ELSE r = Response(500, "INTERNAL_SERVER_ERROR", "Something went wrong", {})

\* A storage error other than P2002, carrying a message, has been answered.
C18_Witness ==
  /\ errorCall.error.name = "PrismaClientKnownRequestError"
  /\ errorCall.error.code = "P2025"
  /\ errorCall.error.message # ""
  /\ errorCall.response.status = 500

\* C19 -- Revocation and use are monotonic: no step deletes a RefreshToken
\* row or clears its revokedAt, none deletes a PasswordResetOtp row or clears
\* its usedAt, and a refresh token whose row is revoked never passes refresh.
C19_RevocationMonotonic ==
  /\ [][/\ \A r \in refreshTokens : \E q \in refreshTokens' :
             /\ q.tokenHash = r.tokenHash
             /\ q.userId = r.userId
             /\ r.revokedAt # NULL => q.revokedAt # NULL
        /\ \A o \in otps : \E q \in otps' :
             /\ q.id = o.id
             /\ o.usedAt # NULL => q.usedAt # NULL]_vars
  /\ [](\A t \in issued :
          (\E r \in storedByHash(hashToken(t)) : r.revokedAt # NULL) => ~Refreshable(t))

\* A ledger row revoked at an earlier time, its token still within its
\* lifetime and its user active.
C19_Witness ==
  \E t \in issued : \E r \in storedByHash(hashToken(t)) :
    /\ r.revokedAt # NULL
    /\ r.revokedAt < now
    /\ jwtVerify(t, env.JWT_REFRESH_SECRET) = "ok"
    /\ users[r.userId].isActive

(* ================== requests handled statement by statement ============= *)
\* The handlers await the database between their checks and their writes,
\* so the statements of concurrent requests interleave.  procs[p] is the
\* position of request p: "idle", "checked" (refresh has read the ledger row
\* and passed its checks), "tx" (a $transaction is open, stmt statements
\* executed), "done" (responded).
Tables == [users |-> users, refreshTokens |-> refreshTokens, otps |-> otps]

\* The statements of the $transaction arrays.
userUpdate(userId, passwordHash) ==
  [do |-> "user.update", userId |-> userId, passwordHash |-> passwordHash]
refreshTokenUpdateMany(userId) ==
  [do |-> "refreshToken.updateMany", userId |-> userId, passwordHash |-> bcryptHash("")]
passwordResetOtpUpdateMany(userId) ==
  [do |-> "passwordResetOtp.updateMany", userId |-> userId, passwordHash |-> bcryptHash("")]

changePasswordStatements(userId, newPassword) ==
  <<userUpdate(userId, bcryptHash(newPassword)), refreshTokenUpdateMany(userId)>>

resetPasswordStatements(userId, newPassword) ==
  <<userUpdate(userId, bcryptHash(newPassword)), refreshTokenUpdateMany(userId),
    passwordResetOtpUpdateMany(userId)>>

\* The tables after one statement has been executed on them.
execute(tables, statement) ==
  IF statement.do = "user.update"
    THEN [tables EXCEPT !.users[statement.userId].passwordHash = statement.passwordHash]
  ELSE IF statement.do = "refreshToken.updateMany"
    THEN [tables EXCEPT !.refreshTokens =
            {IF r.userId = statement.userId /\ r.revokedAt = NULL
               THEN [r EXCEPT !.revokedAt = now] ELSE r : r \in @}]
  ELSE [tables EXCEPT !.otps =
          {IF o.email = UserEmail(statement.userId) /\ o.usedAt = NULL
             THEN [o EXCEPT !.usedAt = now] ELSE o : o \in @}]

RECURSIVE executeAll(_, _)
executeAll(tables, statements) ==
  IF statements = <<>> THEN tables
  ELSE executeAll(execute(tables, Head(statements)), Tail(statements))

\* Variant: the statements are awaited one by one outside a transaction, each
\* visible as soon as it has been executed.
statementAutocommitted(tables, statement) == execute(tables, statement)

\* prisma.$transaction([...]): what the other requests see of the tables
\* once a statement has been executed inside the open transaction.
statementInTransaction(tables, statement) == tables

setTables(tables) ==
  /\ users' = tables.users
  /\ refreshTokens' = tables.refreshTokens
  /\ otps' = tables.otps

respond(p, op, token, response) ==
  procs' = [procs EXCEPT ![p] =
              [procs[p] EXCEPT !.pc = "done", !.op = op, !.token = token, !.response = response]]

\* The handler's checks, then `await prisma.$transaction([statements])`
\* begins; `result` is what the handler would do if it ran alone.
beginTransaction(p, op, token, result, statements) ==
  /\ procs[p].pc = "idle"
  /\ IF result.response.status # 200
       THEN respond(p, op, token, result.response)
     ELSE procs' = [procs EXCEPT ![p] =
                      [Idle EXCEPT !.pc = "tx", !.op = op, !.token = token,
                                   !.statements = statements,
                                   !.before = {r.tokenHash : r \in unrevokedOf(token.sub)},
                                   !.hashBefore = users[token.sub].passwordHash]]
  /\ UNCHANGED <<restVars, env, now, users, refreshTokens, otps, issued, requests, hist,
                 scopeCall, errorCall>>

changePasswordBegin(p, token, currentPassword, newPassword) ==
  beginTransaction(p, "changePassword", token,
                   changePasswordResult(token, currentPassword, newPassword),
                   changePasswordStatements(token.sub, newPassword))

resetPasswordBegin(p, resetToken, newPassword) ==
  beginTransaction(p, "resetPassword", resetToken,
                   resetPasswordResult(resetToken, newPassword),
                   resetPasswordStatements(resetToken.sub, newPassword))

\* The next statement of the array is executed.
txStatement(p) ==
  /\ procs[p].pc = "tx"
  /\ procs[p].stmt < Len(procs[p].statements)
  /\ setTables(statementInTransaction(Tables, procs[p].statements[procs[p].stmt + 1]))
  /\ procs' = [procs EXCEPT ![p].stmt = @ + 1]
  /\ UNCHANGED <<restVars, env, now, issued, requests, hist, scopeCall, errorCall>>

\* A statement fails or the connection is lost: the transaction is rolled
\* back and the error goes to the error boundary.
txFail(p) ==
  /\ procs[p].pc = "tx"
  /\ respond(p, procs[p].op, procs[p].token, errorHandler(PlainError("transaction failed")))
  /\ UNCHANGED <<restVars, env, now, users, refreshTokens, otps, issued, requests, hist,
                 scopeCall, errorCall>>

\* The transaction commits: its statements take effect together.
txCommit(p) ==
  /\ procs[p].pc = "tx"
  /\ procs[p].stmt = Len(procs[p].statements)
  /\ setTables(executeAll(Tables, procs[p].statements))
  /\ respond(p, procs[p].op, procs[p].token, success(200, "", {"message"}))
  /\ UNCHANGED <<restVars, env, now, issued, requests, hist, scopeCall, errorCall>>

\* refresh up to its last check: the token is verified, the ledger row is
\* read and found unrevoked, unexpired and of an active user.
refreshRead(p, refreshToken) ==
  /\ procs[p].pc = "idle"
  /\ IF refreshResult(refreshToken).response.status # 200
       THEN respond(p, "refresh", refreshToken, refreshResult(refreshToken).response)
     ELSE procs' = [procs EXCEPT ![p] =
                      [Idle EXCEPT !.pc = "checked", !.op = "refresh", !.token = refreshToken,
                                   !.hashBefore = users[refreshToken.sub].passwordHash]]
  /\ UNCHANGED <<restVars, env, now, users, refreshTokens, otps, issued, requests, hist,
                 scopeCall, errorCall>>

\* refresh from $transaction([update({where: {id}}), create]) on: the row
\* read earlier is revoked whatever its revokedAt is by now, and the new
\* pair is issued.
refreshWrite(p) ==
  /\ procs[p].pc = "checked"
  /\ LET refreshToken == procs[p].token
         storedToken == CHOOSE r \in storedByHash(hashToken(refreshToken)) : TRUE
         payload == buildJwtPayload(storedToken.userId)
         nextAccessToken == issueAccessToken(payload)
         nextRefreshToken == issueRefreshToken(payload, randomUUID)
     IN /\ refreshTokens' =
             {IF r.tokenHash = storedToken.tokenHash THEN [r EXCEPT !.revokedAt = now] ELSE r :
                r \in refreshTokens}
             \cup {[userId |-> storedToken.userId, tokenHash |-> hashToken(nextRefreshToken),
                    expiresAt |-> tokenExpiryFromJwt(nextRefreshToken), revokedAt |-> NULL]}
        /\ issued' = issued \cup {nextAccessToken, nextRefreshToken}
        /\ procs' = [procs EXCEPT ![p] =
                       [procs[p] EXCEPT !.pc = "done", !.created = {hashToken(nextRefreshToken)},
                                        !.response = success(200, "", {"accessToken", "refreshToken", "user"})]]
  /\ UNCHANGED <<restVars, env, now, users, otps, requests, hist, scopeCall, errorCall>>

\* verify-otp up to its last check: findFirst returned `record`, which is
\* unexpired and matches the code, and the user is active.
verifyOtpRead(p, email, otp) ==
  /\ procs[p].pc = "idle"
  /\ \E out \in verifyOtpResults(email, otp) :
       IF out.response.status # 200
         THEN respond(p, "verifyOtp", NoJwt, out.response)
       ELSE \E record \in findFirstUnusedOtp(toLowerCase(email)) :
              /\ out = verifyOtpWith(email, otp, record)
              /\ procs' = [procs EXCEPT ![p] =
                             [Idle EXCEPT !.pc = "verified", !.op = "verifyOtp",
                                          !.read = {record}]]
  /\ UNCHANGED <<restVars, env, now, users, refreshTokens, otps, issued, requests, hist,
                 scopeCall, errorCall>>

\* verify-otp from passwordResetOtp.update({where: {id: record.id}}) on:
\* the row read earlier is marked used whatever its usedAt is by now, and
\* the reset token is issued.
verifyOtpWrite(p) ==
  /\ procs[p].pc = "verified"
  /\ LET record == CHOOSE o \in procs[p].read : TRUE
         user == CHOOSE u \in usersByEmail(record.email) : TRUE
         resetToken == issuePasswordResetToken(
                         [sub |-> user, email |-> UserEmail(user)], randomUUID)
     IN /\ otps' = {IF o.id = record.id THEN [o EXCEPT !.usedAt = now] ELSE o : o \in otps}
        /\ issued' = issued \cup {resetToken}
        /\ procs' = [procs EXCEPT ![p] =
                       [procs[p] EXCEPT !.pc = "done", !.token = resetToken,
                                        !.response = success(200, "", {"resetToken", "expiresIn"})]]
  /\ UNCHANGED <<restVars, env, now, users, refreshTokens, requests, hist, scopeCall, errorCall>>

InitSteps == Init

\* Sessions and reset tokens come from login, forgot-password and verify-otp
\* handled in one piece; refresh, change-password and reset-password are
\* handled statement by statement by the requests in ProcIds.
NextSteps ==
  \/ login("ADMIN@school.edu", SeedPassword)
  \/ forgotPassword("ADMIN@school.edu", "100000", TRUE)
  \/ verifyOtp("ADMIN@school.edu", "100000")
  \/ \E p \in ProcIds, t \in TokensOfKind("refresh") : refreshRead(p, t)
  \/ \E p \in ProcIds : refreshWrite(p)
  \/ \E p \in ProcIds, t \in TokensOfKind("access") :
       changePasswordBegin(p, t, SeedPassword, "NewPass1!")
  \/ \E p \in ProcIds, t \in TokensOfKind("password_reset") :
       resetPasswordBegin(p, t, "NewPass1!")
  \/ \E p \in ProcIds : verifyOtpRead(p, "ADMIN@school.edu", "100000")
  \/ \E p \in ProcIds : verifyOtpWrite(p)
  \/ \E p \in ProcIds : txStatement(p)
  \/ \E p \in ProcIds : txFail(p)
  \/ \E p \in ProcIds : txCommit(p)

SpecSteps == InitSteps /\ [][NextSteps]_vars

PasswordFlows == {"changePassword", "resetPassword"}

\* The password hash the transaction of request p sets.
newPasswordHash(p) == procs[p].statements[1].passwordHash

\* C15: whenever a change-password or reset-password request has got past
\* its checks, be it executing its statements, failed between two of them,
\* or finished, the user's password hash is the new one only if every
\* refresh token of that user that was unrevoked when the request began is
\* revoked.
C15_PasswordChangeAtomic ==
  \A p \in ProcIds :
    (/\ procs[p].op \in PasswordFlows
     /\ procs[p].statements # <<>>
     /\ newPasswordHash(p) # procs[p].hashBefore
     /\ users[procs[p].token.sub].passwordHash = newPasswordHash(p))
    => \A r \in refreshTokens :
         r.tokenHash \in procs[p].before => r.revokedAt # NULL

\* A request failed after executing its first statement while the user had a
\* live session: the password is still the old one and the session lives.
C15_Witness ==
  \E p \in ProcIds :
    /\ procs[p].op \in PasswordFlows
    /\ procs[p].pc = "done"
    /\ procs[p].response.status = 500
    /\ procs[p].stmt >= 1
    /\ procs[p].before # {}
    /\ users[procs[p].token.sub].passwordHash = procs[p].hashBefore

\* The requests that exchanged refresh token t for a new pair.
exchanged(t) ==
  {p \in ProcIds : /\ procs[p].op = "refresh"
                   /\ procs[p].token = t
                   /\ procs[p].pc = "done"
                   /\ procs[p].response.status = 200}

\* C20: of the concurrent refresh requests presenting the same refresh
\* token, at most one succeeds.
C20_AtMostOneRefreshSucceeds ==
  \A t \in TokensOfKind("refresh") : Cardinality(exchanged(t)) <= 1

\* C21: a refresh-token row created by a refresh whose ledger lookup saw the
\* user's earlier password hash is revoked once the password has changed.
C21_NoSessionSurvivesPasswordChange ==
  \A p \in ProcIds :
    (/\ procs[p].op = "refresh"
     /\ procs[p].created # {}
     /\ users[procs[p].token.sub].passwordHash # procs[p].hashBefore)
    => \A r \in refreshTokens :
         r.tokenHash \in procs[p].created => r.revokedAt # NULL \/ r.expiresAt <= now

\* The requests that exchanged OTP row o for a password-reset token.
verified(o) ==
  {p \in ProcIds : /\ procs[p].op = "verifyOtp"
                   /\ procs[p].read = {o}
                   /\ procs[p].pc = "done"
                   /\ procs[p].response.status = 200}

\* C22: of the concurrent verify-otp requests presenting the same correct
\* code for the same email, at most one succeeds: one OTP row yields at most
\* one password-reset token.
C22_AtMostOneVerifyOtpSucceeds ==
  \A id \in 1..Cardinality(otps) :
    Cardinality({p \in ProcIds : \E o \in procs[p].read : o.id = id /\ p \in verified(o)}) <= 1

\* The ways a change-password request that got past the authenticator is
\* to be rejected.
AccountMissingOrInactive(t) == t.sub \notin UserIds \/ ~users[t.sub].isActive
CurrentPasswordWrong(t, currentPassword) ==
  t.sub \in UserIds /\ ~bcryptCompare(currentPassword, users[t.sub].passwordHash)
NewPasswordSame(t, newPassword) ==
  t.sub \in UserIds /\ bcryptCompare(newPassword, users[t.sub].passwordHash)

\* C26 -- A rejected change-password changes nothing: when the account is
\* missing or inactive, the current password is wrong, the new password is
\* the current one or violates the composition policy, the answer is a
\* failure and the users and the refresh-token ledger are as they were.
C26_RejectedChangePasswordWritesNothing ==
  \A t \in AnyJwt, currentPassword \in PasswordInputs, newPassword \in PasswordInputs :
    (/\ auth(t) = PassToHandler
     /\ \/ AccountMissingOrInactive(t)
        \/ CurrentPasswordWrong(t, currentPassword)
        \/ NewPasswordSame(t, newPassword)
        \/ ~newPasswordOk(newPassword))
    => LET out == changePasswordResult(t, currentPassword, newPassword)
       IN /\ out.response.status \in {400, 401}
          /\ out.users = users
          /\ out.refreshTokens = refreshTokens

\* A caller with a live session and a valid access token for whom each of
\* the rejections of an active account can happen.
C26_Witness ==
  \E t \in issued :
    /\ auth(t) = PassToHandler
    /\ ~AccountMissingOrInactive(t)
    /\ unrevokedOf(t.sub) # {}
    /\ NewPasswordSame(t, SeedPassword)
    /\ \E currentPassword \in PasswordInputs : CurrentPasswordWrong(t, currentPassword)

\* C27 -- A forgot-password request that is answered with a failure leaves
\* the OTP ledger as it was: no earlier OTP has been marked used and no OTP
\* row has been created.
C27_FailedForgotPasswordWritesNothing ==
  \A e \in EmailInputs, o \in OtpCodes, sendOk \in BOOLEAN :
    (MailOutcome(sendOk) /\ forgotPasswordResult(e, o, sendOk).response.status # 200)
      => forgotPasswordResult(e, o, sendOk).otps = otps

(* ------------------------ server.js: graceful shutdown ------------------ *)
MaxEvents == 3

ProcessEvents == {"SIGINT", "SIGTERM", "unhandledRejection", "uncaughtException"}

\* Variant: cleanup without its isShuttingDown guard.
cleanupUnguarded(signal) ==
  /\ exitCode = NULL
  /\ Len(received) < MaxEvents
  /\ received' = Append(received, signal)
  /\ isShuttingDown' = TRUE
  /\ server' = IF server = "listening" THEN "closing" ELSE server
  /\ closeCallback' = IF closeCallback = "none" THEN "pending" ELSE closeCallback
  /\ forcedTimer' = "armed"
  /\ cleanupStarts' = cleanupStarts + 1
  /\ UNCHANGED <<authVars, recordVars, attendanceVars, financeVars, exitCode, redis, disconnects>>

\* process.on(signal, ...) -> cleanup(signal): the first call sets the flag,
\* asks the server to close and arms the forced-shutdown timer; every later
\* call returns at the guard.
cleanup(signal) ==
  /\ exitCode = NULL
  /\ Len(received) < MaxEvents
  /\ received' = Append(received, signal)
  /\ IF isShuttingDown
       THEN UNCHANGED <<isShuttingDown, server, closeCallback, forcedTimer, cleanupStarts>>
     ELSE /\ isShuttingDown' = TRUE
          /\ server' = "closing"
          /\ closeCallback' = "pending"
          /\ forcedTimer' = "armed"
          /\ cleanupStarts' = cleanupStarts + 1
  /\ UNCHANGED <<authVars, recordVars, attendanceVars, financeVars, exitCode, redis, disconnects>>

\* The last connection has ended: the server is closed and the callback of
\* server.close starts with `await prisma.$disconnect()`.
serverClosed ==
  /\ exitCode = NULL
  /\ server = "closing"
  /\ closeCallback = "pending"
  /\ server' = "closed"
  /\ closeCallback' = "prisma.$disconnect"
  /\ UNCHANGED <<authVars, recordVars, attendanceVars, financeVars, isShuttingDown, forcedTimer, exitCode, redis, received,
                 cleanupStarts, disconnects>>

\* prisma.$disconnect() settles; a rejection is caught and logged.  Without
\* a redis client the callback goes on to process.exit(0).
prismaDisconnect(threw) ==
  /\ exitCode = NULL
  /\ closeCallback = "prisma.$disconnect"
  /\ disconnects' = Append(disconnects, IF threw THEN "prisma threw" ELSE "prisma disconnected")
  /\ IF redis = "client"
       THEN closeCallback' = "redis.quit" /\ UNCHANGED exitCode
     ELSE closeCallback' = "done" /\ exitCode' = 0
  /\ UNCHANGED <<authVars, recordVars, attendanceVars, financeVars, isShuttingDown, server, forcedTimer, redis, received, cleanupStarts>>

\* redis.quit() settles; a rejection is caught and logged; process.exit(0).
redisQuit(threw) ==
  /\ exitCode = NULL
  /\ closeCallback = "redis.quit"
  /\ disconnects' = Append(disconnects, IF threw THEN "redis threw" ELSE "redis disconnected")
  /\ closeCallback' = "done"
  /\ exitCode' = 0
  /\ UNCHANGED <<authVars, recordVars, attendanceVars, financeVars, isShuttingDown, server, forcedTimer, redis, received, cleanupStarts>>

\* The 10 s timer fires while the process is still running: process.exit(1).
forcedShutdown ==
  /\ exitCode = NULL
  /\ forcedTimer = "armed"
  /\ forcedTimer' = "fired"
  /\ exitCode' = 1
  /\ UNCHANGED <<authVars, recordVars, attendanceVars, financeVars, isShuttingDown, server, closeCallback, redis, received,
                 cleanupStarts, disconnects>>

InitServer ==
  /\ env \in {e \in EnvConfigs : e.PASSWORD_RESET_SECRET = "k1"}
  /\ now = 0
  /\ users = [u \in UserIds |->
                [passwordHash |-> bcryptHash(SeedPassword),
                 isActive |-> ActiveAtStart(u), lastLoginAt |-> NULL]]
  /\ refreshTokens = {}
  /\ otps = {}
  /\ issued = {}
  /\ requests = 0
  /\ hist = NoHist
  /\ scopeCall = NoScopeCall
  /\ errorCall = NoErrorCall
  /\ procs = [p \in ProcIds |-> Idle]
  /\ InitServerVars
  /\ redis \in {"client", "null"}
  /\ InitFinanceVars
  /\ InitAttendanceVars
  /\ InitRecordVars

NextServer ==
  \/ \E signal \in ProcessEvents : cleanup(signal)
  \/ serverClosed
  \/ \E threw \in BOOLEAN : prismaDisconnect(threw)
  \/ \E threw \in BOOLEAN : redisQuit(threw)
  \/ forcedShutdown

\* A timer that is armed fires as long as the process runs: the server that
\* has not closed and the pending disconnects keep the event loop alive.
SpecServer == InitServer /\ [][NextServer]_vars /\ WF_vars(forcedShutdown)

ShutdownOnce ==
  /\ cleanupStarts <= 1
  /\ received # <<>> => (isShuttingDown /\ cleanupStarts = 1)

ExitCodes ==
  /\ exitCode \in {NULL, 0, 1}
  /\ exitCode = 0 =>
       /\ server = "closed"
       /\ closeCallback = "done"
       /\ Len(disconnects) = (IF redis = "client" THEN 2 ELSE 1)
  /\ exitCode = 1 => (forcedTimer = "fired" /\ closeCallback # "done")

\* C30 -- Graceful shutdown runs at most once and always ends: whatever
\* signals and process events arrive, the cleanup sequence is started
\* exactly once, and once started the process eventually exits, with code 0
\* from the close callback after the server closed and the disconnects
\* settled (resolved or thrown), or with code 1 from the forced-shutdown
\* timer.
C30_ShutdownOnceAndEnds ==
  /\ [](ShutdownOnce /\ ExitCodes)
  /\ (isShuttingDown ~> exitCode # NULL)

\* Several events arrived, a disconnect threw, and the process exited 0.
C30_Witness ==
  /\ Len(received) >= 2
  /\ exitCode = 0
  /\ \E i \in 1..Len(disconnects) : disconnects[i] \in {"prisma threw", "redis threw"}

(* ----------------- school.finance: invoices and payments ---------------- *)
MaxPayments == 2

Amounts == {1, 2}
AmountsDue == {2, 3}
InvoiceStatuses == {"DRAFT", "ISSUED", "PARTIAL", "PAID", "OVERDUE", "CANCELLED"}
PayIds == DOMAIN payRequests

\* The caller of the finance routes: the accountant of a school.
FinanceCallers == {c \in Callers : c.role = "ACCOUNTANT" /\ c.schoolId = "schoolA"}

\* The statuses PATCH /invoices/:id/status is called with.
StatusInputs == {"DRAFT", "OVERDUE", "CANCELLED"}

\* Student rows as a table: id -> row.
Students == [id \in StudentIds |-> [schoolId |-> StudentSchool(id)]]

\* school.common: the row of `table` with this id, if it belongs to
\* schoolId; else 404.
findScopedOrThrow(table, id, schoolId, entityName, code) ==
  IF id \notin DOMAIN table \/ table[id].schoolId # schoolId
    THEN Throw(notFound(entityName, code))
  ELSE Return(id)

\* Variant: PAID only when more than the amount due has been paid.
computeInvoiceStatusStrict(amountDue, amountPaid) ==
  IF amountPaid <= 0 THEN "ISSUED"
  ELSE IF amountPaid > amountDue THEN "PAID"
  ELSE "PARTIAL"

computeInvoiceStatus(amountDue, amountPaid) ==
  IF amountPaid <= 0 THEN "ISSUED"
  ELSE IF amountPaid >= amountDue THEN "PAID"
  ELSE "PARTIAL"

\* POST /school/invoices: the row prisma.invoice.create writes.
createInvoice(schoolId, studentId, amountDue) ==
  [schoolId |-> schoolId, studentId |-> studentId, amountDue |-> amountDue,
   amountPaid |-> 0, status |-> "ISSUED"]

\* The ids a request names an invoice by: the invoice of the store, an id
\* that does not exist, or none.
InvoiceIdInputs == {1, 2, NULL}

\* PATCH /school/invoices/:id/status
updateInvoiceStatus(user, id, status) ==
  LET schoolId == scopedSchoolId(user, Undefined, Undefined, TRUE)
      invoice == IF schoolId.threw THEN schoolId
                 ELSE findScopedOrThrow(invoices, id, schoolId.value,
                                        "Invoice not found", "INVOICE_NOT_FOUND")
  IN /\ ~invoice.threw
     /\ invoices' = [invoices EXCEPT ![id].status = status]
     /\ UNCHANGED <<authVars, recordVars, attendanceVars, serverVars, payments, payRequests>>

\* createPayment up to the payment.create: the scope is resolved and the
\* student and the invoice are read.  invoiceId NULL: no invoice given.
createPaymentFind(p, user, studentId, invoiceId, amount) ==
  LET schoolId == scopedSchoolId(user, Undefined, Undefined, TRUE)
      student == IF schoolId.threw THEN schoolId
                 ELSE findScopedOrThrow(Students, studentId, schoolId.value,
                                        "Student not found", "STUDENT_NOT_FOUND")
      invoice == IF student.threw \/ invoiceId = NULL THEN student
                 ELSE findScopedOrThrow(invoices, invoiceId, schoolId.value,
                                        "Invoice not found", "INVOICE_NOT_FOUND")
  IN /\ payRequests[p].pc \in {"idle", "done"}
     /\ payRequests' = [payRequests EXCEPT ![p] =
          IF invoice.threw
            THEN [NoPayRequest EXCEPT !.pc = "done", !.status = errorHandler(invoice.error).status]
          ELSE [NoPayRequest EXCEPT
                  !.pc = "found", !.schoolId = schoolId.value,
                  !.invoiceId = invoiceId, !.amount = amount,
                  !.amountDue = IF invoiceId = NULL THEN 0 ELSE invoices[invoiceId].amountDue,
                  !.amountPaid = IF invoiceId = NULL THEN 0 ELSE invoices[invoiceId].amountPaid]]
     /\ UNCHANGED <<authVars, recordVars, attendanceVars, serverVars, invoices, payments>>

\* prisma.payment.create; without an invoice the handler answers 201.
createPaymentCreate(p) ==
  LET r == payRequests[p] IN
  /\ r.pc = "found"
  /\ BagCardinality(payments) < MaxPayments
  /\ payments' = payments (+)
       SetToBag({[schoolId |-> r.schoolId, invoiceId |-> r.invoiceId, amount |-> r.amount]})
  /\ payRequests' = [payRequests EXCEPT ![p] =
       IF r.invoiceId = NULL THEN [NoPayRequest EXCEPT !.pc = "done", !.status = 201]
       ELSE [r EXCEPT !.pc = "created"]]
  /\ UNCHANGED <<authVars, recordVars, attendanceVars, serverVars, invoices>>

\* prisma.invoice.update with the amount computed from the invoice as it
\* was read; the handler answers 201.
createPaymentUpdate(p) ==
  LET r == payRequests[p]
      paid == r.amountPaid + r.amount
  IN /\ r.pc = "created"
     /\ invoices' = [invoices EXCEPT ![r.invoiceId] =
                       [@ EXCEPT !.amountPaid = paid,
                                 !.status = computeInvoiceStatus(r.amountDue, paid)]]
     /\ payRequests' = [payRequests EXCEPT ![p] =
                           [NoPayRequest EXCEPT !.pc = "done", !.status = 201]]
     /\ UNCHANGED <<authVars, recordVars, attendanceVars, serverVars, payments>>

\* The store holds one invoice, as createInvoice left it.
InitFinance ==
  /\ env \in {e \in EnvConfigs : e.PASSWORD_RESET_SECRET = "k1"}
  /\ now = 0
  /\ users = [u \in UserIds |->
                [passwordHash |-> bcryptHash(SeedPassword),
                 isActive |-> ActiveAtStart(u), lastLoginAt |-> NULL]]
  /\ refreshTokens = {}
  /\ otps = {}
  /\ issued = {}
  /\ requests = 0
  /\ hist = NoHist
  /\ scopeCall = NoScopeCall
  /\ errorCall = NoErrorCall
  /\ procs = [p \in ProcIds |-> Idle]
  /\ InitServerVars
  /\ redis = "null"
  /\ \E due \in AmountsDue : invoices = <<createInvoice("schoolA", "stuA", due)>>
  /\ payments = EmptyBag
  /\ payRequests = [p \in {"p1", "p2"} |-> NoPayRequest]
  /\ InitAttendanceVars
  /\ InitRecordVars

NextFinance ==
  \/ \E c \in FinanceCallers, id \in InvoiceIdInputs \ {NULL}, status \in StatusInputs :
       updateInvoiceStatus(c, id, status)
  \/ \E p \in PayIds, c \in FinanceCallers, st \in StudentIds,
        id \in InvoiceIdInputs, a \in Amounts :
       createPaymentFind(p, c, st, id, a)
  \/ \E p \in PayIds : createPaymentCreate(p)
  \/ \E p \in PayIds : createPaymentUpdate(p)

SpecFinance == InitFinance /\ [][NextFinance]_vars

RECURSIVE sumAmounts(_)
\* The sum of the amounts of the Payment rows in the set `rows`.
sumAmounts(rows) ==
  IF rows = {} THEN 0
  ELSE LET r == CHOOSE x \in rows : TRUE
       IN r.amount * CopiesIn(r, payments) + sumAmounts(rows \ {r})

\* The sum of the amounts of the payments that reference invoice id.
paidInto(id) == sumAmounts({r \in BagToSet(payments) : r.invoiceId = id})

\* No createPayment request is being handled.
NoPaymentInFlight == \A p \in PayIds : payRequests[p].pc \in {"idle", "done"}

\* C23 -- Invoice reconciliation: once the createPayment calls have
\* finished, the amountPaid of an invoice is the sum of the amounts of the
\* payments that reference it.
C23_AmountPaidIsSumOfPayments ==
  NoPaymentInFlight =>
    \A id \in DOMAIN invoices : invoices[id].amountPaid = paidInto(id)

\* Request p answers 201 in this step.
createPaymentSucceeds(p) ==
  /\ payRequests[p].pc \in {"found", "created"}
  /\ payRequests'[p].pc = "done"
  /\ payRequests'[p].status = 201

\* C28 -- Immediately after a successful createPayment that references
\* invoice I, I.status is computeInvoiceStatus(I.amountDue, I.amountPaid):
\* PAID iff amountPaid >= amountDue, PARTIAL iff 0 < amountPaid < amountDue,
\* whatever the status was before; a payment without invoiceId changes no
\* invoice.
C28_StatusFollowsAmountPaid ==
  [][\A p \in PayIds :
       createPaymentSucceeds(p) =>
         IF payRequests[p].invoiceId = NULL THEN invoices' = invoices
         ELSE LET I == invoices'[payRequests[p].invoiceId] IN
              /\ I.status = computeInvoiceStatus(I.amountDue, I.amountPaid)
              /\ I.status = "PAID" <=> I.amountPaid >= I.amountDue
              /\ I.status = "PARTIAL" <=> (0 < I.amountPaid /\ I.amountPaid < I.amountDue)
              /\ I.status \in {"PAID", "PARTIAL"}]_vars

\* A payment brought the invoice to exactly its amount due, and another
\* payment named no invoice.
C28_Witness ==
  /\ \E p \in PayIds : payRequests[p].pc = "done" /\ payRequests[p].status = 201
  /\ invoices[1].amountPaid = invoices[1].amountDue
  /\ invoices[1].status = "PAID"
  /\ \E r \in BagToSet(payments) : r.invoiceId = NULL

(* ------------------ school.academic.core: staff attendance -------------- *)
MaxMarks == 3

\* Staff rows of the store: id -> schoolId.
StaffIds == {"stfA", "stfB"}
StaffSchool(id) == IF id = "stfA" THEN "schoolA" ELSE "schoolB"
Staff == [id \in StaffIds |-> [schoolId |-> StaffSchool(id)]]
StaffIdInputs == StaffIds \cup {"stf404"}

\* dayStart(payload.date): the day a record is for.
Days == {1, 2}

\* attendanceStatusEnum; the handlers tell LEAVE from the other three only.
AttendanceStatuses == {"PRESENT", "ABSENT", "LATE", "LEAVE"}
MarkStatuses == {"PRESENT", "LEAVE"}

\* The caller of the attendance routes: the HR user of a school.
AttendanceCallers == {c \in Callers : c.role = "HR" /\ c.schoolId = "schoolA"}

AttendanceTables == [staffAttendance |-> staffAttendance, leaveRequests |-> leaveRequests]

sameDay(a, schoolId, staffId, date) ==
  a.schoolId = schoolId /\ a.staffId = staffId /\ a.date = date

\* tx.staffAttendance.upsert on the key (schoolId, staffId, date).
upsertStaffAttendance(rows, schoolId, staffId, date, status) ==
  IF \E a \in rows : sameDay(a, schoolId, staffId, date)
    THEN {IF sameDay(a, schoolId, staffId, date) THEN [a EXCEPT !.status = status] ELSE a :
            a \in rows}
  ELSE rows \cup {[id |-> Cardinality(rows) + 1, schoolId |-> schoolId, staffId |-> staffId,
                   date |-> date, status |-> status]}

\* Variant: re-marking a LEAVE row leaves its leave request in place.
markStaffKeepingLeave(tables, schoolId, staffId, date, status) ==
  LET rows == upsertStaffAttendance(tables.staffAttendance, schoolId, staffId, date, status)
      upserted == CHOOSE a \in rows : sameDay(a, schoolId, staffId, date)
      linked == {l \in tables.leaveRequests : l.attendanceId = upserted.id}
  IN [staffAttendance |-> rows,
      leaveRequests |->
        IF status = "LEAVE"
          THEN IF linked # {}
                 THEN {IF l \in linked
                         THEN [l EXCEPT !.date = upserted.date, !.staffId = upserted.staffId]
                       ELSE l : l \in tables.leaveRequests}
               ELSE tables.leaveRequests \cup
                      {[id |-> upserted.id, schoolId |-> schoolId, staffId |-> upserted.staffId,
                        attendanceId |-> upserted.id, date |-> upserted.date,
                        status |-> "PENDING"]}
        ELSE tables.leaveRequests]

\* The body of the transaction for one staff record: the attendance upsert,
\* then the leave request upsert (LEAVE) or deleteMany (any other status).
markStaff(tables, schoolId, staffId, date, status) ==
  LET rows == upsertStaffAttendance(tables.staffAttendance, schoolId, staffId, date, status)
      upserted == CHOOSE a \in rows : sameDay(a, schoolId, staffId, date)
      linked == {l \in tables.leaveRequests : l.attendanceId = upserted.id}
  IN [staffAttendance |-> rows,
      leaveRequests |->
        IF status = "LEAVE"
          THEN IF linked # {}
                 THEN {IF l \in linked
                         THEN [l EXCEPT !.date = upserted.date, !.staffId = upserted.staffId]
                       ELSE l : l \in tables.leaveRequests}
               ELSE tables.leaveRequests \cup
                      {[id |-> upserted.id, schoolId |-> schoolId, staffId |-> upserted.staffId,
                        attendanceId |-> upserted.id, date |-> upserted.date,
                        status |-> "PENDING"]}
        ELSE tables.leaveRequests \ linked]

\* A statement of the transaction fails: the staffId has no Staff row
\* (foreign key), or the new leave request meets another one of the same
\* (schoolId, staffId, date) or id (unique indexes).
statementFails(tables, schoolId, staffId, date, status) ==
  \/ staffId \notin StaffIds
  \/ /\ status = "LEAVE"
     /\ LET rows == upsertStaffAttendance(tables.staffAttendance, schoolId, staffId, date, status)
            upserted == CHOOSE a \in rows : sameDay(a, schoolId, staffId, date)
        IN \E l \in tables.leaveRequests :
             /\ l.attendanceId # upserted.id
             /\ \/ l.id = upserted.id
                \/ (l.schoolId = schoolId /\ l.staffId = staffId /\ l.date = date)

RECURSIVE markAll(_, _, _, _)
\* prisma.$transaction(async (tx) => {for (const record of records) ...}):
\* the tables after the last record, or a failure that rolls all back.
markAll(tables, schoolId, date, records) ==
  IF records = <<>> THEN [ok |-> TRUE, tables |-> tables]
  ELSE LET record == Head(records) IN
       IF statementFails(tables, schoolId, record.staffId, date, record.status)
         THEN [ok |-> FALSE, tables |-> tables]
       ELSE markAll(markStaff(tables, schoolId, record.staffId, date, record.status),
                    schoolId, date, Tail(records))

\* The transaction of a mark request commits.
commitMarks(schoolId, date, records) ==
  LET result == markAll(AttendanceTables, schoolId, date, records) IN
  /\ Len(marks) + Len(records) <= MaxMarks
  /\ result.ok
  /\ staffAttendance' = result.tables.staffAttendance
  /\ leaveRequests' = result.tables.leaveRequests
  /\ marks' = marks \o [i \in 1..Len(records) |->
                          [staffId |-> records[i].staffId, date |-> date,
                           status |-> records[i].status]]
  /\ UNCHANGED <<authVars, recordVars, serverVars, financeVars>>

\* POST /school/attendance/mark {type: "staff", staffId, date, status}
markAttendance(user, staffId, date, status) ==
  LET schoolId == scopedSchoolId(user, Undefined, Undefined, TRUE)
      staff == IF schoolId.threw THEN schoolId
               ELSE findScopedOrThrow(Staff, staffId, schoolId.value,
                                      "Staff not found", "STAFF_NOT_FOUND")
  IN /\ ~staff.threw
     /\ commitMarks(schoolId.value, date, <<[staffId |-> staffId, status |-> status]>>)

\* POST /school/attendance/bulk-mark {type: "staff", date, records}
bulkMarkAttendance(user, date, records) ==
  LET schoolId == scopedSchoolId(user, Undefined, Undefined, TRUE)
  IN /\ ~schoolId.threw
     /\ commitMarks(schoolId.value, date, records)

StaffRecords == [staffId : StaffIdInputs, status : MarkStatuses]
RecordLists == {<<r>> : r \in StaffRecords} \cup {<<r, q>> : r \in StaffRecords, q \in StaffRecords}

InitAttendance == InitServer /\ redis = "null"

NextAttendance ==
  \/ \E c \in AttendanceCallers, id \in StaffIdInputs, d \in Days, status \in MarkStatuses :
       markAttendance(c, id, d, status)
  \/ \E c \in AttendanceCallers, d \in Days, records \in RecordLists :
       bulkMarkAttendance(c, d, records)

SpecAttendance == InitAttendance /\ [][NextAttendance]_vars

\* C29 -- After any sequence of staff markAttendance and bulkMarkAttendance
\* calls, a LeaveRequest linked to a StaffAttendance row exists if and only
\* if the row's status is LEAVE, there is at most one such request, and
\* there is at most one attendance row per (school, staff, day).
C29_LeaveRequestIffLeave ==
  /\ \A a \in staffAttendance :
       /\ (\E l \in leaveRequests : l.attendanceId = a.id) <=> a.status = "LEAVE"
       /\ Cardinality({l \in leaveRequests : l.attendanceId = a.id}) <= 1
  /\ \A a \in staffAttendance, b \in staffAttendance :
       sameDay(a, b.schoolId, b.staffId, b.date) => a = b

\* A staff member marked LEAVE was re-marked with another status on the
\* same day by the latest call.
C29_Witness ==
  /\ Len(marks) >= 2
  /\ \E i \in 1..(Len(marks) - 1) :
       /\ marks[i].staffId = marks[Len(marks)].staffId
       /\ marks[i].date = marks[Len(marks)].date
       /\ marks[i].status = "LEAVE"
       /\ marks[Len(marks)].status # "LEAVE"
  /\ \E a \in staffAttendance : a.status = "LEAVE"

\* C24 -- Tenant isolation of references: no record of a school refers to
\* an entity of another school; here, every StaffAttendance row refers to a
\* staff member of the row's own school.
C24_NoForeignReferences ==
  \A a \in staffAttendance : a.staffId \in StaffIds /\ StaffSchool(a.staffId) = a.schoolId

(* --------------- get, update and delete of a record by id --------------- *)
ClassIdInputs == {"clsA", "clsB", "cls404"}

\* Request bodies of PUT /school/classes/:id: one the schema refuses, the
\* empty object, a new name, a new class teacher.
ClassPayloads ==
  {[ok |-> FALSE, name |-> Undefined, classTeacherId |-> Undefined],
   [ok |-> TRUE, name |-> Undefined, classTeacherId |-> Undefined],
   [ok |-> TRUE, name |-> "10", classTeacherId |-> Undefined],
   [ok |-> TRUE, name |-> Undefined, classTeacherId |-> "stfA"],
   [ok |-> TRUE, name |-> Undefined, classTeacherId |-> "stfB"]}

\* Request bodies of PATCH /school/students/:id/status.
StudentStatusInputs == {"ACTIVE", "INACTIVE", "GRADUATED"}

\* What a by-id handler answers and what it leaves in its table.
Handled(response, table) == [response |-> response, table |-> table]

without(table, id) == [i \in DOMAIN table \ {id} |-> table[i]]

\* Variant: the class is looked up by id alone.
updateClassResultUnscoped(user, id, querySchoolId, payload) ==
  IF ~payload.ok THEN Handled(errorHandler(ZodError), classRooms)
  ELSE
    LET schoolId == scopedSchoolId(user, Undefined, querySchoolId, TRUE)
    IN
    IF schoolId.threw THEN Handled(errorHandler(schoolId.error), classRooms)
    ELSE IF id \notin DOMAIN classRooms
      THEN Handled(errorHandler(notFound("Class not found", "CLASS_NOT_FOUND")), classRooms)
    ELSE IF payload.name = Undefined /\ payload.classTeacherId = Undefined
      THEN Handled(errorHandler(badRequest("At least one field is required", "BAD_REQUEST")),
                   classRooms)
    ELSE Handled(success(200, "", {"classRoom"}),
                 [classRooms EXCEPT
                    ![id].name = IF payload.name = Undefined THEN @ ELSE payload.name,
                    ![id].classTeacherId =
                      IF payload.classTeacherId = Undefined THEN @ ELSE payload.classTeacherId])

\* PUT /school/classes/:id?schoolId=
updateClassResult(user, id, querySchoolId, payload) ==
  IF ~payload.ok THEN Handled(errorHandler(ZodError), classRooms)
  ELSE
    LET schoolId == scopedSchoolId(user, Undefined, querySchoolId, TRUE)
        classRoom == IF schoolId.threw THEN schoolId
                     ELSE findScopedOrThrow(classRooms, id, schoolId.value,
                                            "Class not found", "CLASS_NOT_FOUND")
        classTeacher == IF classRoom.threw \/ payload.classTeacherId = Undefined THEN classRoom
                        ELSE findScopedOrThrow(Staff, payload.classTeacherId, schoolId.value,
                                               "Staff not found", "STAFF_NOT_FOUND")
    IN
    IF classTeacher.threw THEN Handled(errorHandler(classTeacher.error), classRooms)
    ELSE IF payload.name = Undefined /\ payload.classTeacherId = Undefined
      THEN Handled(errorHandler(badRequest("At least one field is required", "BAD_REQUEST")),
                   classRooms)
    ELSE Handled(success(200, "", {"classRoom"}),
                 [classRooms EXCEPT
                    ![id].name = IF payload.name = Undefined THEN @ ELSE payload.name,
                    ![id].classTeacherId =
                      IF payload.classTeacherId = Undefined THEN @ ELSE payload.classTeacherId])

\* DELETE /school/classes/:id?schoolId=
deleteClassResult(user, id, querySchoolId) ==
  LET schoolId == scopedSchoolId(user, Undefined, querySchoolId, TRUE)
      classRoom == IF schoolId.threw THEN schoolId
                   ELSE findScopedOrThrow(classRooms, id, schoolId.value,
                                          "Class not found", "CLASS_NOT_FOUND")
  IN IF classRoom.threw THEN Handled(errorHandler(classRoom.error), classRooms)
     ELSE Handled(success(200, "", {"message"}), without(classRooms, id))

\* GET /school/students/:id?schoolId=
getStudentByIdResult(user, id, querySchoolId) ==
  LET student == findScopedStudentOrThrow(user, id, querySchoolId)
  IN IF student.threw THEN Handled(errorHandler(student.error), students)
     ELSE Handled(success(200, "", {"student"}), students)

\* PATCH /school/students/:id/status?schoolId=
updateStudentStatusResult(user, id, querySchoolId, status) ==
  IF status \notin {"ACTIVE", "INACTIVE"} THEN Handled(errorHandler(ZodError), students)
  ELSE
    LET existing == findScopedStudentOrThrow(user, id, querySchoolId)
    IN IF existing.threw THEN Handled(errorHandler(existing.error), students)
       ELSE Handled(success(200, "", {"student"}), [students EXCEPT ![id].status = status])

\* DELETE /school/students/:id?schoolId=
deleteStudentResult(user, id, querySchoolId) ==
  LET existing == findScopedStudentOrThrow(user, id, querySchoolId)
  IN IF existing.threw THEN Handled(errorHandler(existing.error), students)
     ELSE Handled(success(200, "", {"message"}), without(students, id))

\* A handler on classes is passed the request by requireRole and runs.
handleClass(user, result) ==
  /\ requireRole(SchoolRouteRoles, user)
  /\ classRooms' = result.table
  /\ UNCHANGED <<authVars, serverVars, financeVars, attendanceVars, students>>

\* A handler on students is passed the request by requireRole and runs.
handleStudent(user, result) ==
  /\ requireRole(SchoolRouteRoles, user)
  /\ students' = result.table
  /\ UNCHANGED <<authVars, serverVars, financeVars, attendanceVars, classRooms>>

updateClass(user, id, querySchoolId, payload) ==
  handleClass(user, updateClassResult(user, id, querySchoolId, payload))

deleteClass(user, id, querySchoolId) ==
  handleClass(user, deleteClassResult(user, id, querySchoolId))

updateStudentStatus(user, id, querySchoolId, status) ==
  handleStudent(user, updateStudentStatusResult(user, id, querySchoolId, status))

deleteStudent(user, id, querySchoolId) ==
  handleStudent(user, deleteStudentResult(user, id, querySchoolId))

InitRecords == InitServer /\ redis = "null"

NextRecords ==
  \/ \E c \in Callers, id \in ClassIdInputs, s \in SchoolInputs, payload \in ClassPayloads :
       updateClass(c, id, s, payload)
  \/ \E c \in Callers, id \in ClassIdInputs, s \in SchoolInputs : deleteClass(c, id, s)
  \/ \E c \in Callers, id \in StudentIdInputs, s \in SchoolInputs,
        status \in StudentStatusInputs :
       updateStudentStatus(c, id, s, status)
  \/ \E c \in Callers, id \in StudentIdInputs, s \in SchoolInputs : deleteStudent(c, id, s)

SpecRecords == InitRecords /\ [][NextRecords]_vars

\* Callers bound to one school whose role the school routes admit.
TenantCallers == {c \in Callers : c.schoolId # NoSchool /\ c.role \in SchoolRouteRoles}

\* Rows of `table` that belong to another school than the caller's.
foreignTo(c, table) == {id \in DOMAIN table : table[id].schoolId # c.schoolId}

\* Payloads and statuses the request schemas accept.
ValidClassPayloads == {p \in ClassPayloads : p.ok}
ValidStudentStatuses == {"ACTIVE", "INACTIVE"}

\* The request carries no schoolId, or the caller's own.
namesOwnSchool(c, s) == s = Undefined \/ s = c.schoolId

\* As the claim reads: whatever schoolId the request carries, a by-id
\* handler answers a valid request for a record of another school with 404.
C25_ForeignRecordAlways404 ==
  \A c \in TenantCallers, s \in SchoolInputs :
    /\ \A id \in foreignTo(c, classRooms) :
         /\ \A p \in ValidClassPayloads : updateClassResult(c, id, s, p).response.status = 404
         /\ deleteClassResult(c, id, s).response.status = 404
    /\ \A id \in foreignTo(c, students) :
         /\ getStudentByIdResult(c, id, s).response.status = 404
         /\ \A st \in ValidStudentStatuses :
              updateStudentStatusResult(c, id, s, st).response.status = 404
         /\ deleteStudentResult(c, id, s).response.status = 404

\* A handler's answer for a record of another school is its answer for an
\* id that does not exist, and its table is left as it was.
asForMissingClass(c, id, s) ==
  /\ \A p \in ClassPayloads :
       /\ updateClassResult(c, id, s, p).response = updateClassResult(c, "cls404", s, p).response
       /\ updateClassResult(c, id, s, p).table = classRooms
  /\ deleteClassResult(c, id, s).response = deleteClassResult(c, "cls404", s).response
  /\ deleteClassResult(c, id, s).table = classRooms

asForMissingStudent(c, id, s) ==
  /\ getStudentByIdResult(c, id, s).response = getStudentByIdResult(c, "stu404", s).response
  /\ \A st \in StudentStatusInputs :
       /\ updateStudentStatusResult(c, id, s, st).response
            = updateStudentStatusResult(c, "stu404", s, st).response
       /\ updateStudentStatusResult(c, id, s, st).table = students
  /\ deleteStudentResult(c, id, s).response = deleteStudentResult(c, "stu404", s).response
  /\ deleteStudentResult(c, id, s).table = students

\* C25: for a caller bound to school A and a record R of another school,
\* every update and delete by id on classes (findScopedOrThrow) and every
\* get, update and delete by id on students (findScopedStudentOrThrow)
\* answers exactly as for an id that does not exist and leaves R unchanged.
\* For a valid request that answer is 404 on the student handlers whatever
\* schoolId the request carries, and on the class handlers when the request
\* carries no schoolId or the caller's own; a class request that names
\* another school is refused with 403 before the lookup.
C25_ForeignRecordAsMissing ==
  \A c \in TenantCallers, s \in SchoolInputs :
    /\ \A id \in foreignTo(c, classRooms) :
         /\ asForMissingClass(c, id, s)
         /\ \A p \in ValidClassPayloads :
              updateClassResult(c, id, s, p).response.status
                = IF namesOwnSchool(c, s) THEN 404 ELSE 403
         /\ deleteClassResult(c, id, s).response.status
              = IF namesOwnSchool(c, s) THEN 404 ELSE 403
    /\ \A id \in foreignTo(c, students) :
         /\ asForMissingStudent(c, id, s)
         /\ getStudentByIdResult(c, id, s).response.status = 404
         /\ \A st \in ValidStudentStatuses :
              updateStudentStatusResult(c, id, s, st).response.status = 404
         /\ deleteStudentResult(c, id, s).response.status = 404

\* School A has renamed its own class and changed its own student, and a
\* caller of school A is answered 404 for the class and the student of
\* school B, which are as they were created.
C25_Witness ==
  LET c == [role |-> "SCHOOLADMIN", schoolId |-> "schoolA"] IN
  /\ c \in TenantCallers
  /\ "clsA" \in DOMAIN classRooms /\ classRooms["clsA"].name = "10"
  /\ "stuA" \in DOMAIN students /\ students["stuA"].status = "INACTIVE"
  /\ "clsB" \in foreignTo(c, classRooms) /\ classRooms["clsB"].name = "9"
  /\ "stuB" \in foreignTo(c, students) /\ students["stuB"].status = "ACTIVE"
  /\ deleteClassResult(c, "clsB", Undefined).response.code = "CLASS_NOT_FOUND"
  /\ deleteStudentResult(c, "stuB", "schoolB").response.code = "STUDENT_NOT_FOUND"
====
